---- MODULE Spec2Model ----
(***************************************************************************)
(* Flow layout core: collection of flow elements into prepared children    *)
(* (collect.rs) and distribution of the children into regions              *)
(* (distribute.rs).  Lengths are small integers (one unit = one abstract   *)
(* length unit); only the vertical axis is modelled.                       *)
(*                                                                         *)
(* Option<T> is modelled as a sequence: <<>> is None, <<x>> is Some(x).    *)
(***************************************************************************)
EXTENDS Integers, Sequences, FiniteSets, TLC

VARIABLES
    children,   \* the prepared children of the flow (output of collect)
    work,       \* composer.work: cursor, pending tags, spills, queued floats
    regions,    \* Distributor.regions: size (y), backlog, last, full
    items,      \* Distributor.items
    sticky,     \* Distributor.sticky: Option<DistributionSnapshot>
    stickable,  \* Distributor.stickable: Option<bool>
    init,       \* the snapshot taken at the start of distribute
    given,      \* the `regions` argument of the running distribute call
    cutouts,    \* composer.column_cutouts (ids of the registered wraps)
    handled,    \* floats the composer has already inserted
    pc,         \* position inside distribute / run
    stop,       \* the Stop value run() ended with
    result,     \* what the last distribute call returned
    out,        \* history: one record per frame returned by distribute
    provider,   \* a CutoutWidth: region_width, cutouts, y_offset, dir
    call,       \* the last call of a function on its own and what it returned
    elems,      \* the elements handed to collect
    cell        \* a CachedCell: Option<(hash, output)>

vars == <<children, work, regions, items, sticky, stickable, init, given,
          cutouts, handled, pc, stop, result, out, provider, call, elems, cell>>

\* The variables of the flow.
flow_vars == <<children, work, regions, items, sticky, stickable, init, given,
               cutouts, handled, pc, stop, result, out>>

\* ------------------------------------------------------------------ bounds

\* Longest element sequence handed to collect.
MaxElems == 3
\* Most distribute calls the composer makes for one flow.
MaxCalls == 6

\* ----------------------------------------------------------------- helpers

None == <<>>
Some(x) == <<x>>

Min(a, b) == IF a <= b THEN a ELSE b
Max(a, b) == IF a >= b THEN a ELSE b

RECURSIVE SumSeq(_)
SumSeq(s) == IF s = <<>> THEN 0 ELSE Head(s) + SumSeq(Tail(s))

\* Sequences over S of length 1..n.
SeqsUpTo(S, n) == UNION {[1..m -> S] : m \in 1..n}

\* The first n elements of s (Vec::truncate).
truncate(s, n) == IF n >= Len(s) THEN s ELSE SubSeq(s, 1, n)

\* s without its i-th element (Vec::remove).
remove(s, i) == SubSeq(s, 1, i - 1) \o SubSeq(s, i + 1, Len(s))

\* ------------------------------------------------------------------ regions

\* Abs::fits: the receiver has room for `other`.
fits(avail, other) == avail >= other

\* Regions::may_progress: a follow-up region exists that differs from the
\* current one: a backlog, or a last region of another height.
may_progress(r) ==
    \/ r.backlog # <<>>
    \/ (r.last # None /\ r.size # r.last[1])

\* Regions::is_full.
is_full(r) == r.size <= 0

\* regions.iter().nth(1): the height of the next region, if there is one.
next_region(r) ==
    IF r.backlog # <<>> THEN Some(Head(r.backlog))
    ELSE r.last

\* `regions.iter().nth(1).is_some_and(|region| region.y.fits(need))`.
next_fits(r, need) == next_region(r) # None /\ fits(next_region(r)[1], need)

\* Regions::next: the regions the composer passes to the next call.
regions_next(r) ==
    IF next_region(r) = None THEN r
    ELSE [size    |-> next_region(r)[1],
          full    |-> next_region(r)[1],
          backlog |-> IF r.backlog # <<>> THEN Tail(r.backlog) ELSE <<>>,
          last    |-> r.last]

\* -------------------------------------------------------------------- work

\* Work::head.
head(w) == IF w.cursor <= Len(children) THEN Some(children[w.cursor]) ELSE None

\* Work::advance.
advance(w) == [w EXCEPT !.cursor = @ + 1]

\* Work::done.
done(w) ==
    /\ w.cursor > Len(children)
    /\ w.spill = None
    /\ w.par_spill = None
    /\ w.floats = <<>>

\* ------------------------------------------------------------------- items

\* Item::Tag, Item::Abs, Item::Fr, Item::Frame, Item::Placed.  History kept
\* with an item: `src` of an Abs is the index of the Rel child that pushed it
\* and `by` the index of the Rel child that last wrote it (0 for the spacing
\* and leading of a deferred paragraph).  For a Frame, `sticky` is the flag
\* it was pushed with and `mp`/`able` record regions.may_progress() and the
\* group's stickable flag at that moment.
TagItem(t) == [k |-> "Tag", tag |-> t]
AbsItem(a, w, src) == [k |-> "Abs", a |-> a, w |-> w, src |-> src, by |-> src]
FrItem(f, w, single) == [k |-> "Fr", fr |-> f, w |-> w, single |-> single]
FrameItem(f, stk, mp, able) ==
    [k |-> "Frame", frame |-> f, sticky |-> stk, mp |-> mp, able |-> able]
PlacedItem(f, c) == [k |-> "Placed", frame |-> f, placed |-> c]

\* Item::migratable.
migratable(item) ==
    CASE item.k = "Tag" -> TRUE
      [] item.k = "Frame" -> item.frame.h = 0 /\ item.frame.marks
      [] item.k = "Placed" -> ~item.placed.float
      [] OTHER -> FALSE

\* The state a handler of the distributor works on.
Cur ==
    [work |-> work, regions |-> regions, items |-> items, sticky |-> sticky,
     stickable |-> stickable, cutouts |-> cutouts, handled |-> handled]

\* A handler's FlowResult: the state it leaves and "ok" (Ok(())), "finish"
\* (Stop::Finish(false)), "forced" (Stop::Finish(true)), "relayout" or
\* "error".
Ret(d, s) == [d |-> d, stop |-> s]

\* Distributor::snapshot.
snapshot(d) == [work |-> d.work, items |-> Len(d.items)]

\* Distributor::restore without the truncation of the items.
restore_keeps_items(d, snap) == [d EXCEPT !.work = snap.work]

\* Distributor::restore.
restore(d, snap) ==
    [d EXCEPT !.work = snap.work, !.items = truncate(d.items, snap.items)]

\* Distributor::flush_tags.
flush_tags(d) ==
    IF d.work.tags # <<>>
    THEN [d EXCEPT !.items = @ \o [i \in 1..Len(d.work.tags) |-> TagItem(d.work.tags[i])],
                   !.work.tags = <<>>]
    ELSE d

\* Distributor::tag.
tag(d, t) == [d EXCEPT !.work.tags = Append(@, t)]

\* Distributor::current_y.
RECURSIVE current_y_of(_)
current_y_of(its) ==
    IF its = <<>> THEN 0
    ELSE LET it == Head(its)
         IN  (CASE it.k = "Abs" -> it.a
                [] it.k = "Frame" -> it.frame.h
                [] OTHER -> 0) + current_y_of(Tail(its))

current_y(d) == current_y_of(d.items)

\* ----------------------------------------------------------------- spacing

\* Distributor::keep_weak_rel_spacing replacing the previous weak spacing
\* without taking the difference from the region.
RECURSIVE keep_weak_rel_scan_unaccounted(_, _, _, _, _)
keep_weak_rel_scan_unaccounted(d, i, amount, weakness, src) ==
    IF i = 0 THEN [keep |-> FALSE, d |-> d]
    ELSE LET item == d.items[i] IN
         CASE item.k = "Abs" /\ item.w >= 1 ->
                [keep |-> FALSE,
                 d |-> IF weakness <= item.w /\ (weakness < item.w \/ amount > item.a)
                       THEN [d EXCEPT !.items[i] = [item EXCEPT !.a = amount,
                                                                !.w = weakness,
                                                                !.by = src]]
                       ELSE d]
           [] item.k \in {"Tag", "Placed"} \/ (item.k = "Abs" /\ item.w = 0) ->
                keep_weak_rel_scan_unaccounted(d, i - 1, amount, weakness, src)
           [] item.k = "Fr" /\ item.single = None ->
                [keep |-> FALSE, d |-> d]
           [] OTHER -> [keep |-> TRUE, d |-> d]

\* Distributor::keep_weak_rel_spacing with fractional spacing supporting
\* the weak spacing after it, as a frame does.
RECURSIVE keep_weak_rel_scan_over_fr(_, _, _, _, _)
keep_weak_rel_scan_over_fr(d, i, amount, weakness, src) ==
    IF i = 0 THEN [keep |-> FALSE, d |-> d]
    ELSE LET item == d.items[i] IN
         CASE item.k = "Abs" /\ item.w >= 1 ->
                [keep |-> FALSE,
                 d |-> IF weakness <= item.w /\ (weakness < item.w \/ amount > item.a)
                       THEN [d EXCEPT !.regions.size = @ - (amount - item.a),
                                      !.items[i] = [item EXCEPT !.a = amount,
                                                                !.w = weakness,
                                                                !.by = src]]
                       ELSE d]
           [] item.k \in {"Tag", "Placed"} \/ (item.k = "Abs" /\ item.w = 0) ->
                keep_weak_rel_scan_over_fr(d, i - 1, amount, weakness, src)
           [] OTHER -> [keep |-> TRUE, d |-> d]

\* Distributor::keep_weak_rel_spacing, scanning the items from index i down.
RECURSIVE keep_weak_rel_scan(_, _, _, _, _)
keep_weak_rel_scan(d, i, amount, weakness, src) ==
    IF i = 0 THEN [keep |-> FALSE, d |-> d]
    ELSE LET item == d.items[i] IN
         CASE item.k = "Abs" /\ item.w >= 1 ->
                [keep |-> FALSE,
                 d |-> IF weakness <= item.w /\ (weakness < item.w \/ amount > item.a)
                       THEN [d EXCEPT !.regions.size = @ - (amount - item.a),
                                      !.items[i] = [item EXCEPT !.a = amount,
                                                                !.w = weakness,
                                                                !.by = src]]
                       ELSE d]
           [] item.k \in {"Tag", "Placed"} \/ (item.k = "Abs" /\ item.w = 0) ->
                keep_weak_rel_scan(d, i - 1, amount, weakness, src)
           [] item.k = "Fr" /\ item.single = None ->
                [keep |-> FALSE, d |-> d]
           [] OTHER -> [keep |-> TRUE, d |-> d]

keep_weak_rel_spacing(d, amount, weakness, src) ==
    keep_weak_rel_scan(d, Len(d.items), amount, weakness, src)

\* Distributor::rel without the collapse of weak spacing: the spacing is
\* always pushed.
rel_always_pushes(d, amount, weakness, src) ==
    [d EXCEPT !.regions.size = @ - amount,
              !.items = Append(@, AbsItem(amount, weakness, src))]

\* Distributor::rel.
rel(d, amount, weakness, src) ==
    LET kept == IF weakness > 0 THEN keep_weak_rel_spacing(d, amount, weakness, src)
                ELSE [keep |-> TRUE, d |-> d]
    IN  IF ~kept.keep THEN kept.d
        ELSE [kept.d EXCEPT !.regions.size = @ - amount,
                            !.items = Append(@, AbsItem(amount, weakness, src))]

\* Distributor::keep_weak_fr_spacing.
RECURSIVE keep_weak_fr_scan(_, _, _, _)
keep_weak_fr_scan(d, i, f, weakness) ==
    IF i = 0 THEN [keep |-> FALSE, d |-> d]
    ELSE LET item == d.items[i] IN
         CASE item.k = "Fr" /\ item.w >= 1 /\ item.single = None ->
                [keep |-> FALSE,
                 d |-> IF weakness <= item.w /\ (weakness < item.w \/ f > item.fr)
                       THEN [d EXCEPT !.items[i] = FrItem(f, weakness, None)]
                       ELSE d]
           [] item.k \in {"Tag", "Abs", "Placed"} ->
                keep_weak_fr_scan(d, i - 1, f, weakness)
           [] OTHER -> [keep |-> TRUE, d |-> d]

keep_weak_fr_spacing(d, f, weakness) ==
    keep_weak_fr_scan(d, Len(d.items), f, weakness)

\* Distributor::trim_spacing, scanning the items from index i down.
RECURSIVE trim_scan(_, _)
trim_scan(d, i) ==
    IF i = 0 THEN d
    ELSE LET item == d.items[i] IN
         CASE item.k = "Abs" /\ item.w >= 1 ->
                [d EXCEPT !.regions.size = @ + item.a, !.items = remove(@, i)]
           [] item.k = "Fr" /\ item.w >= 1 /\ item.single = None ->
                [d EXCEPT !.items = remove(@, i)]
           [] item.k \in {"Tag", "Abs", "Placed"} -> trim_scan(d, i - 1)
           [] OTHER -> d

trim_spacing(d) == trim_scan(d, Len(d.items))

\* Distributor::fr without trim_spacing: a kept fractional spacing is pushed
\* behind the trailing weak spacing.
fr_keeps_trailing(d, f, weakness) ==
    LET kept == IF weakness > 0 THEN keep_weak_fr_spacing(d, f, weakness)
                ELSE [keep |-> TRUE, d |-> d]
    IN  IF ~kept.keep THEN kept.d
        ELSE [kept.d EXCEPT !.items = Append(@, FrItem(f, weakness, None))]

\* Distributor::fr.
fr(d, f, weakness) ==
    LET kept == IF weakness > 0 THEN keep_weak_fr_spacing(d, f, weakness)
                ELSE [keep |-> TRUE, d |-> d]
    IN  IF ~kept.keep THEN kept.d
        ELSE LET t == trim_spacing(kept.d)
             IN  [t EXCEPT !.items = Append(@, FrItem(f, weakness, None))]

\* Distributor::weak_spacing: the amount of trailing weak spacing.
RECURSIVE weak_scan(_, _)
weak_scan(its, i) ==
    IF i = 0 THEN 0
    ELSE LET item == its[i] IN
         CASE item.k = "Abs" /\ item.w >= 1 -> item.a
           [] item.k \in {"Tag", "Abs", "Placed"} -> weak_scan(its, i - 1)
           [] OTHER -> 0

weak_spacing(d) == weak_scan(d.items, Len(d.items))

\* ------------------------------------------------------------------ frames

\* A laid out frame: its height, whether it holds no items at all
\* (Frame::is_empty), whether all its items are links or tags, and which
\* content it carries: units lo..hi of flow element src (lines carry the
\* words of their paragraph, fragments of a block carry its rows).
mkframe(h, empty, marks, src, lo, hi) ==
    [h |-> h, empty |-> empty, marks |-> marks, src |-> src, lo |-> lo, hi |-> hi,
     cut |-> FALSE, y0 |-> 0]

\* The paragraph layouter: the line frames of paragraph p.  With cutouts in
\* the column the lines are narrow (p.narrow units each), without they have
\* the full width (p.per units each).  A line is empty iff all its units are
\* blank; `cut` records that the line was broken around cutouts.
layout_par(p, src, with_cutouts) ==
    LET per == IF with_cutouts THEN p.narrow ELSE p.per
        n == (p.units + per - 1) \div per
    IN  [j \in 1..n |->
            LET lo == (j - 1) * per + 1
                hi == Min(j * per, p.units)
            IN  [mkframe(p.h, \A u \in lo..hi : u \in p.blank, FALSE, src, lo, hi)
                    EXCEPT !.cut = with_cutouts]]

\* ParChild::layout: with cutouts the layouter gets an InlineContext with
\* y_offset, which the lines keep as `y0`; without it gets none.
par_layout(c, cuts, y_offset) ==
    LET lines == layout_par(c.par, c.src, cuts # {})
    IN  [j \in 1..Len(lines) |->
            [lines[j] EXCEPT !.y0 = IF cuts # {} THEN y_offset ELSE 0]]

\* The block layouter for a breakable block of c.rows unbreakable rows of
\* height c.rowh: the rows from `from` on are filled into the regions (y,
\* then the backlog, then last repeated); a row that does not fit is moved
\* on when a later region may help and is placed anyway when none can.
RECURSIVE layout_multi_block(_, _, _, _, _)
layout_multi_block(c, from, y, backlog, last) ==
    LET n == c.rows - from + 1
        mp == backlog # <<>> \/ (last # None /\ last[1] # y)
        fitn == IF y <= 0 THEN 0 ELSE y \div c.rowh
        take == IF mp THEN Min(n, fitn)
                ELSE IF last = None THEN n
                ELSE Max(1, Min(n, fitn))
        f == mkframe(take * c.rowh, take = 0, take = 0, c.src, from, from + take - 1)
    IN  IF take >= n THEN <<f>>
        ELSE <<f>> \o layout_multi_block(c, from + take,
                        IF backlog # <<>> THEN Head(backlog) ELSE last[1],
                        IF backlog # <<>> THEN Tail(backlog) ELSE <<>>, last)

\* MultiChild::layout_full (the cached cell returns what the layouter returns).
layout_full(c, r) == layout_multi_block(c, 1, r.size, r.backlog, r.last)

\* MultiChild::layout: the first frame and the spill, if frames remain.
multi_layout(c, r) ==
    LET fragment == layout_full(c, r)
    IN  [frame |-> fragment[1],
         spill |-> IF Len(fragment) > 1
                   THEN Some([exist_non_empty_frame |->
                                  \E i \in 1..Len(fragment) : ~fragment[i].empty,
                              multi |-> c,
                              full |-> r.full,
                              first |-> r.size,
                              backlog |-> <<>>,
                              min_backlog_len |-> Len(r.backlog)])
                   ELSE None]

\* The trimming of all trailing entries equal to regions.last, whatever
\* min_backlog_len is.
trim_backlog_below_min(backlog, min_len, last) ==
    LET keep == {n \in 0..Len(backlog) :
                    \A i \in (n + 1)..Len(backlog) : Some(backlog[i]) = last}
    IN  SubSeq(backlog, 1, CHOOSE n \in keep : \A m \in keep : n <= m)

\* The backlog trimming of MultiSpill::layout: drop trailing entries equal to
\* regions.last while the backlog is longer than min_backlog_len.
RECURSIVE trim_backlog(_, _, _)
trim_backlog(backlog, min_len, last) ==
    IF Len(backlog) > min_len /\ Some(backlog[Len(backlog)]) = last
    THEN trim_backlog(SubSeq(backlog, 1, Len(backlog) - 1), min_len, last)
    ELSE backlog

\* The pod MultiSpill::layout builds: the height the block started with,
\* then the committed heights with that of the region at hand, then the
\* backlog of the regions, trimmed.
spill_pod(spill, r) ==
    [size |-> spill.first, full |-> spill.full,
     backlog |-> trim_backlog(Append(spill.backlog, r.size) \o r.backlog,
                              spill.min_backlog_len, r.last),
     last |-> r.last]

\* MultiSpill::layout without the skip of the frames of the regions
\* committed.
spill_layout_no_skip(spill, r) ==
    LET all == layout_full(spill.multi, spill_pod(spill, r))
        self == [spill EXCEPT !.backlog = Append(@, r.size)]
    IN  [panic |-> FALSE, frame |-> all[1],
         spill |-> IF Len(all) > 1 THEN Some(self) ELSE None]

\* MultiSpill::layout: the next frame and the remaining spill.  `panic` is
\* the unwrap of a missing frame.
spill_layout(spill, r) ==
    LET committed == Append(spill.backlog, r.size)
        pod == spill_pod(spill, r)
        all == layout_full(spill.multi, pod)
        skip == Len(committed)
        self == [spill EXCEPT !.backlog = committed,
                              !.min_backlog_len = Max(@, Len(pod.backlog))]
    IN  IF Len(all) <= skip
        THEN [panic |-> TRUE, frame |-> mkframe(0, TRUE, TRUE, spill.multi.src, 1, 0),
              spill |-> None]
        ELSE [panic |-> FALSE, frame |-> all[skip + 1],
              spill |-> IF Len(all) > skip + 1 THEN Some(self) ELSE None]

\* ---------------------------------------------------------------- handlers

\* Distributor::frame without the checkpoint of a sticky group.
frame_no_checkpoint(d, f, stk, breakable) ==
    LET mp == may_progress(d.regions)
        d1 == IF stk
              THEN IF d.stickable = None THEN [d EXCEPT !.stickable = Some(mp)] ELSE d
              ELSE IF ~f.empty
                   THEN [d EXCEPT !.sticky = None, !.stickable = None]
                   ELSE d
        d2 == flush_tags([d1 EXCEPT !.regions.size = @ - f.h])
    IN  [d2 EXCEPT !.items = Append(@, FrameItem(f, stk, mp, d1.stickable))]

\* Distributor::frame with a sticky group that may always migrate, whether
\* or not the region may progress.
frame_always_stickable(d, f, stk, breakable) ==
    LET mp == may_progress(d.regions)
        d1 == IF stk
              THEN IF d.sticky = None
                   THEN LET able == IF d.stickable = None THEN Some(TRUE) ELSE d.stickable
                        IN  IF able[1]
                            THEN [d EXCEPT !.stickable = able, !.sticky = Some(snapshot(d))]
                            ELSE [d EXCEPT !.stickable = able]
                   ELSE d
              ELSE IF ~f.empty
                   THEN [d EXCEPT !.sticky = None, !.stickable = None]
                   ELSE d
        d2 == flush_tags([d1 EXCEPT !.regions.size = @ - f.h])
    IN  [d2 EXCEPT !.items = Append(@, FrameItem(f, stk, mp, d1.stickable))]

\* Distributor::frame without the shrinking of the region.
frame_no_shrink(d, f, stk, breakable) ==
    LET mp == may_progress(d.regions)
        d1 == IF stk
              THEN IF d.sticky = None
                   THEN LET able == IF d.stickable = None THEN Some(mp) ELSE d.stickable
                        IN  IF able[1]
                            THEN [d EXCEPT !.stickable = able, !.sticky = Some(snapshot(d))]
                            ELSE [d EXCEPT !.stickable = able]
                   ELSE d
              ELSE IF ~f.empty
                   THEN [d EXCEPT !.sticky = None, !.stickable = None]
                   ELSE d
        d2 == flush_tags(d1)
    IN  [d2 EXCEPT !.items = Append(@, FrameItem(f, stk, mp, d1.stickable))]

\* Distributor::frame (the flow has no footnotes: composer.footnotes is Ok).
frame(d, f, stk, breakable) ==
    LET mp == may_progress(d.regions)
        d1 == IF stk
              THEN IF d.sticky = None
                   THEN LET able == IF d.stickable = None THEN Some(mp) ELSE d.stickable
                        IN  IF able[1]
                            THEN [d EXCEPT !.stickable = able, !.sticky = Some(snapshot(d))]
                            ELSE [d EXCEPT !.stickable = able]
                   ELSE d
              ELSE IF ~f.empty
                   THEN [d EXCEPT !.sticky = None, !.stickable = None]
                   ELSE d
        d2 == flush_tags([d1 EXCEPT !.regions.size = @ - f.h])
    IN  [d2 EXCEPT !.items = Append(@, FrameItem(f, stk, mp, d1.stickable))]

\* Distributor::line without the check of the line's need.
line_ignores_need(d, c) ==
    IF ~fits(d.regions.size, c.frame.h) /\ may_progress(d.regions)
    THEN Ret(d, "finish")
    ELSE Ret(frame(d, c.frame, FALSE, FALSE), "ok")

\* Distributor::line.
line(d, c) ==
    IF ~fits(d.regions.size, c.frame.h) /\ may_progress(d.regions)
    THEN Ret(d, "finish")
    ELSE IF ~fits(d.regions.size, c.need) /\ next_fits(d.regions, c.need)
    THEN Ret(d, "finish")
    ELSE Ret(frame(d, c.frame, FALSE, FALSE), "ok")

\* The need without widow and orphan prevention: the height of the line.
par_need_height_only(frames, leading, orphan, widow, i) == frames[i + 1].h

\* The `need` computed in process_par_lines for line i (0-based).
par_need(frames, leading, orphan, widow, i) ==
    LET len == Len(frames)
        height_at(j) == IF j < len THEN frames[j + 1].h ELSE 0
        sat_sub(a, b) == IF a >= b THEN a - b ELSE 0
        prevent_orphans == orphan /\ len >= 2 /\ ~frames[2].empty
        prevent_widows == widow /\ len >= 2 /\ ~frames[sat_sub(len, 2) + 1].empty
        prevent_all == len = 3 /\ prevent_orphans /\ prevent_widows
        front_1 == height_at(0)
        front_2 == height_at(1)
        back_2 == height_at(sat_sub(len, 2))
        back_1 == height_at(sat_sub(len, 1))
    IN  IF prevent_all /\ i = 0 THEN front_1 + leading + front_2 + leading + back_1
        ELSE IF prevent_orphans /\ i = 0 THEN front_1 + leading + front_2
        ELSE IF prevent_widows /\ i >= 2 /\ i + 2 = len THEN back_2 + leading + back_1
        ELSE frames[i + 1].h

\* The ParSpill with the lines placed in this call only.
par_spill_at_forgets(P, i) ==
    [frames |-> SubSeq(P.frames, i + 1, Len(P.frames)),
     leading |-> P.leading, orphan |-> P.orphan, widow |-> P.widow,
     spacing |-> P.spacing, par |-> P.par,
     lines_placed |-> i, src |-> P.src]

\* The ParSpill stored when line i (0-based) of P.frames does not go into the
\* region.
par_spill_at(P, i) ==
    [frames |-> SubSeq(P.frames, i + 1, Len(P.frames)),
     leading |-> P.leading, orphan |-> P.orphan, widow |-> P.widow,
     spacing |-> P.spacing, par |-> P.par,
     lines_placed |-> P.lines_placed_before + i, src |-> P.src]

\* The loop of Distributor::process_par_lines from line i (0-based) on.
RECURSIVE par_lines_loop(_, _, _)
par_lines_loop(d, P, i) ==
    IF i >= Len(P.frames) THEN Ret(rel(d, P.spacing, 4, 0), "ok")
    ELSE LET d1 == IF i > 0 THEN rel(d, P.leading, 5, 0) ELSE d
             f == P.frames[i + 1]
             need == par_need(P.frames, P.leading, P.orphan, P.widow, i)
             stored == [d1 EXCEPT !.work.par_spill = Some(par_spill_at(P, i))]
             spilled == IF P.advance_on_spill
                        THEN [stored EXCEPT !.work = advance(@)]
                        ELSE stored
         IN  IF ~fits(d1.regions.size, f.h) /\ may_progress(d1.regions)
             THEN Ret(spilled, "finish")
             ELSE IF ~fits(d1.regions.size, need) /\ next_fits(d1.regions, need)
             THEN Ret(spilled, "finish")
             ELSE par_lines_loop(frame(d1, f, FALSE, FALSE), P, i + 1)

\* Distributor::process_par_lines.
process_par_lines(d, frames, leading, orphan, widow, spacing, advance_on_spill, par_ref, lines_placed_before, src) ==
    par_lines_loop(d,
        [frames |-> frames, leading |-> leading, orphan |-> orphan,
         widow |-> widow, spacing |-> spacing,
         advance_on_spill |-> advance_on_spill, par |-> par_ref,
         lines_placed_before |-> lines_placed_before, src |-> src], 0)

\* Distributor::par without the spacing before the first line.
par_without_spacing(d, c) ==
    IF c.par.bad THEN Ret(d, "error") ELSE
    process_par_lines(d, par_layout(c, d.cutouts, current_y(d)), c.par.leading,
                      c.par.orphan, c.par.widow, c.par.spacing, TRUE,
                      IF d.cutouts # {} THEN Some(c) ELSE None, 0, c.src)

\* Distributor::par.
par(d, c) ==
    IF c.par.bad THEN Ret(d, "error") ELSE
    LET y_offset == current_y(d)
        has_cutouts == d.cutouts # {}
        frames == par_layout(c, d.cutouts, y_offset)
        d1 == rel(d, c.par.spacing, 4, 0)
    IN  process_par_lines(d1, frames, c.par.leading, c.par.orphan, c.par.widow,
                          c.par.spacing, TRUE,
                          IF has_cutouts THEN Some(c) ELSE None, 0, c.src)

\* Skips the first n elements (Iterator::skip).
skip(s, n) == IF n >= Len(s) THEN <<>> ELSE SubSeq(s, n + 1, Len(s))

\* Distributor::par_spill advancing the cursor when it spills again.
par_spill_advances(d, spill) ==
    IF is_full(d.regions)
    THEN Ret([d EXCEPT !.work.par_spill = Some(spill)], "finish")
    ELSE process_par_lines(d, spill.frames, spill.leading, spill.orphan,
                           spill.widow, spill.spacing, TRUE, spill.par,
                           spill.lines_placed, spill.src)

\* Distributor::par_spill (the spill has been taken out of the work).
par_spill(d, spill) ==
    IF is_full(d.regions)
    THEN Ret([d EXCEPT !.work.par_spill = Some(spill)], "finish")
    ELSE IF spill.par # None /\ d.cutouts = {}
    THEN LET all_frames == par_layout(spill.par[1], d.cutouts, current_y(d))
             frames == skip(all_frames, spill.lines_placed)
         IN  process_par_lines(d, frames, spill.leading, spill.orphan, spill.widow,
                               spill.spacing, FALSE, None, spill.lines_placed,
                               spill.src)
    ELSE process_par_lines(d, spill.frames, spill.leading, spill.orphan,
                           spill.widow, spill.spacing, FALSE, spill.par,
                           spill.lines_placed, spill.src)

\* The frame of an unbreakable block (SingleChild::layout).
single_frame(c) == mkframe(c.h, c.empty, c.empty, c.src, 1, 1)

\* Distributor::single ending the region whenever the block does not fit.
single_always_waits(d, c) ==
    IF c.bad THEN Ret(d, "error")
    ELSE IF c.fr # None
    THEN LET d1 == flush_tags(d)
         IN  Ret([d1 EXCEPT !.items = Append(@, FrItem(c.fr[1], 0, Some(c)))], "ok")
    ELSE IF ~fits(d.regions.size, c.h)
    THEN Ret(d, "finish")
    ELSE Ret(frame(d, single_frame(c), c.sticky, FALSE), "ok")

\* Distributor::single.
single(d, c) ==
    IF c.bad THEN Ret(d, "error")
    ELSE IF c.fr # None
    THEN LET d1 == flush_tags(d)
         IN  Ret([d1 EXCEPT !.items = Append(@, FrItem(c.fr[1], 0, Some(c)))], "ok")
    ELSE IF ~fits(d.regions.size, c.h) /\ may_progress(d.regions)
    THEN Ret(d, "finish")
    ELSE Ret(frame(d, single_frame(c), c.sticky, FALSE), "ok")

\* Distributor::multi that saves the spill and goes on with the region
\* instead of finishing it.
multi_goes_on(d, c) ==
    IF is_full(d.regions) THEN Ret(d, "finish")
    ELSE LET l == multi_layout(c, d.regions)
         IN  IF /\ l.frame.empty
                /\ l.spill # None /\ l.spill[1].exist_non_empty_frame
                /\ may_progress(d.regions)
             THEN Ret(d, "finish")
             ELSE LET d1 == frame(d, l.frame, c.sticky, TRUE)
                  IN  IF l.spill # None
                      THEN Ret([d1 EXCEPT !.work.spill = l.spill], "ok")
                      ELSE Ret(d1, "ok")

\* Distributor::multi emitting the first frame whatever it holds.
multi_emits_empty(d, c) ==
    IF is_full(d.regions) THEN Ret(d, "finish")
    ELSE LET l == multi_layout(c, d.regions)
             d1 == frame(d, l.frame, c.sticky, TRUE)
         IN  IF l.spill # None
             THEN Ret([d1 EXCEPT !.work = advance([@ EXCEPT !.spill = l.spill])], "finish")
             ELSE Ret(d1, "ok")

\* Distributor::multi.
multi(d, c) ==
    IF is_full(d.regions) THEN Ret(d, "finish")
    ELSE LET l == multi_layout(c, d.regions)
         IN  IF /\ l.frame.empty
                /\ l.spill # None /\ l.spill[1].exist_non_empty_frame
                /\ may_progress(d.regions)
             THEN Ret(d, "finish")
             ELSE LET d1 == frame(d, l.frame, c.sticky, TRUE)
                  IN  IF l.spill # None
                      THEN Ret([d1 EXCEPT !.work = advance([@ EXCEPT !.spill = l.spill])],
                               "finish")
                      ELSE Ret(d1, "ok")

\* Distributor::multi_spill (the spill has been taken out of the work).
multi_spill(d, spill) ==
    IF is_full(d.regions)
    THEN Ret([d EXCEPT !.work.spill = Some(spill)], "finish")
    ELSE LET l == spill_layout(spill, d.regions)
         IN  IF l.panic THEN Ret(d, "error")
             ELSE LET d1 == frame(d, l.frame, FALSE, TRUE)
                  IN  IF l.spill # None
                      THEN Ret([d1 EXCEPT !.work.spill = l.spill], "finish")
                      ELSE Ret(d1, "ok")

\* Composer::float: a float the composer has inserted already is skipped; a
\* new one is either queued for a later region or inserted, which requires
\* the region to be laid out again.
composer_float(d, c, queue) ==
    IF c.src \in d.handled THEN Ret(d, "ok")
    ELSE IF queue THEN Ret([d EXCEPT !.work.floats = Append(@, c.src)], "ok")
    ELSE Ret([d EXCEPT !.handled = @ \cup {c.src}], "relayout")

\* Distributor::placed.
placed(d, c, queue) ==
    IF c.float
    THEN LET weak == weak_spacing(d)
             r == composer_float([d EXCEPT !.regions.size = @ + weak], c, queue)
         IN  IF r.stop = "ok" THEN Ret([r.d EXCEPT !.regions.size = @ - weak], "ok")
             ELSE r
    ELSE LET d1 == flush_tags(d)
         IN  Ret([d1 EXCEPT !.items =
                     Append(@, PlacedItem(mkframe(c.h, FALSE, FALSE, c.src, 1, 1), c))],
                 "ok")

\* Composer::wrap and Composer::masthead: a new sidebar registers its cutout
\* and requires the region to be laid out again; a registered one is done.
composer_wrap(d, c, y, has_frame) ==
    IF c.src \in d.cutouts THEN Ret(d, "ok")
    ELSE Ret([d EXCEPT !.cutouts = @ \cup {c.src}], "relayout")

\* Distributor::wrap.
wrap(d, c) ==
    LET weak == weak_spacing(d)
        r == composer_wrap([d EXCEPT !.regions.size = @ + weak], c, current_y(d),
                           \E i \in 1..Len(d.items) : d.items[i].k = "Frame")
    IN  IF r.stop = "ok" THEN Ret([r.d EXCEPT !.regions.size = @ - weak], "ok")
        ELSE r

\* Distributor::masthead.
masthead(d, c) ==
    LET weak == weak_spacing(d)
        r == composer_wrap([d EXCEPT !.regions.size = @ + weak], c, current_y(d),
                           \E i \in 1..Len(d.items) : d.items[i].k = "Frame")
    IN  IF r.stop = "ok" THEN Ret([r.d EXCEPT !.regions.size = @ - weak], "ok")
        ELSE r

\* Distributor::flush.
flush(d) == IF d.work.floats # <<>> THEN Ret(d, "finish") ELSE Ret(d, "ok")

\* Distributor::break_ leaving the cursor on the break.
break_stays(d, weak) ==
    IF /\ (~weak \/ d.items # <<>>)
       /\ (d.regions.backlog # <<>> \/ d.regions.last # None)
    THEN Ret(d, "forced")
    ELSE Ret(d, "ok")

\* Distributor::break_.
break_(d, weak) ==
    IF /\ (~weak \/ d.items # <<>>)
       /\ (d.regions.backlog # <<>> \/ d.regions.last # None)
    THEN Ret([d EXCEPT !.work = advance(@)], "forced")
    ELSE Ret(d, "ok")

\* Distributor::finalize restoring the sticky checkpoint only, never the
\* initial snapshot.
finalize_restore_sticky_only(d, init_snap, forced) ==
    IF forced THEN flush_tags(d)
    ELSE IF d.sticky # None
    THEN restore([d EXCEPT !.sticky = None], d.sticky[1])
    ELSE d

\* The restore of finalize without the sticky checkpoint.
finalize_restore_init_only(d, init_snap, forced) ==
    IF forced THEN flush_tags(d)
    ELSE IF d.items # <<>> /\ \A i \in 1..Len(d.items) : migratable(d.items[i])
    THEN restore(d, init_snap)
    ELSE [d EXCEPT !.sticky = None]

\* The first part of Distributor::finalize: flush the tags or restore a
\* snapshot.
finalize_restore(d, init_snap, forced) ==
    IF forced THEN flush_tags(d)
    ELSE IF d.items # <<>> /\ \A i \in 1..Len(d.items) : migratable(d.items[i])
    THEN restore(d, init_snap)
    ELSE IF d.sticky # None
    THEN restore([d EXCEPT !.sticky = None], d.sticky[1])
    ELSE d

\* Distributor::finalize without trim_spacing: the frame is built from the
\* items as the restore left them.
finalize_without_trim(d, region_size, init_snap, forced) ==
    LET d0 == finalize_restore(d, init_snap, forced)
        d1 == d0
        sum == current_y(d1)
        frs == SumSeq([i \in 1..Len(d1.items) |->
                          IF d1.items[i].k = "Fr" THEN d1.items[i].fr ELSE 0])
        used == IF frs > 0 THEN region_size ELSE sum
    IN  [d |-> d1,
         frame |-> [items |-> d1.items, sum |-> sum, used |-> used,
                    height |-> Min(used, region_size), size0 |-> region_size,
                    left |-> d1.regions.size,
                    end |-> [work |-> d.work, items |-> d.items,
                             size |-> d.regions.size,
                             next |-> next_region(d.regions)],
                    forced |-> forced, last |-> done(d1.work),
                    dropped |-> IF Len(d0.items) < Len(d.items)
                                THEN SubSeq(d.items, Len(d0.items) + 1, Len(d.items))
                                ELSE <<>>]]

\* Distributor::finalize: the state it leaves and the frame it returns (the
\* items in output order, their sum, the used height, the frame's height,
\* the height the region started with and the height left of it, the work
\* the items and the remaining height run() ended with and the next region's
\* height, and the items a restore removed).
finalize(d, region_size, init_snap, forced) ==
    LET d0 == finalize_restore(d, init_snap, forced)
        d1 == trim_spacing(d0)
        sum == current_y(d1)
        frs == SumSeq([i \in 1..Len(d1.items) |->
                          IF d1.items[i].k = "Fr" THEN d1.items[i].fr ELSE 0])
        used == IF frs > 0 THEN region_size ELSE sum
    IN  [d |-> d1,
         frame |-> [items |-> d1.items, sum |-> sum, used |-> used,
                    height |-> Min(used, region_size), size0 |-> region_size,
                    left |-> d1.regions.size,
                    end |-> [work |-> d.work, items |-> d.items,
                             size |-> d.regions.size,
                             next |-> next_region(d.regions)],
                    forced |-> forced, last |-> done(d1.work),
                    dropped |-> IF Len(d0.items) < Len(d.items)
                                THEN SubSeq(d.items, Len(d0.items) + 1, Len(d.items))
                                ELSE <<>>]]

\* ----------------------------------------------------------------- collect

\* Child::Tag .. Child::Break.  `src` is the index of the element the child
\* was collected from.
TagChild(src) == [k |-> "Tag", src |-> src]
RelChild(a, w, src) == [k |-> "Rel", a |-> a, w |-> w, src |-> src]
FrChild(f, w, src) == [k |-> "Fr", fr |-> f, w |-> w, src |-> src]
LineChild(f, need, src) == [k |-> "Line", frame |-> f, need |-> need, src |-> src]
ParChild(p, situation, src) ==
    [k |-> "Par", par |-> p, situation |-> situation, src |-> src]
SingleChild(b, alone, src) ==
    [k |-> "Single", h |-> b.h, empty |-> b.empty, sticky |-> b.sticky,
     alone |-> alone, fr |-> b.fr, bad |-> b.bad, src |-> src]
MultiChild(b, alone, src) ==
    [k |-> "Multi", rows |-> b.rows, rowh |-> b.rowh, sticky |-> b.sticky,
     alone |-> alone, src |-> src]
PlacedChild(e, src) == [k |-> "Placed", float |-> e.float, h |-> e.h, src |-> src]
WrapChild(src) == [k |-> "Wrap", src |-> src]
MastheadChild(src) == [k |-> "Masthead", src |-> src]
FlushChild(src) == [k |-> "Flush", src |-> src]
BreakChild(weak, src) == [k |-> "Break", weak |-> weak, src |-> src]

\* The need with orphan prevention only: a line before the last two asks for
\* its own height.
lines_need_orphans_only(lines, leading, orphan, widow, i) ==
    IF orphan /\ Len(lines) >= 2 /\ ~lines[2].empty /\ i = 0
    THEN lines[1].h + leading + lines[2].h
    ELSE lines[i + 1].h

\* The `need` Collector::lines gives line i (0-based) of `lines`.
lines_need(lines, leading, orphan, widow, i) ==
    LET len == Len(lines)
        height_at(j) == IF j < len THEN lines[j + 1].h ELSE 0
        sat_sub(a, b) == IF a >= b THEN a - b ELSE 0
        prevent_orphans == orphan /\ len >= 2 /\ ~lines[2].empty
        prevent_widows == widow /\ len >= 2 /\ ~lines[len - 1].empty
        prevent_all == len = 3 /\ prevent_orphans /\ prevent_widows
        front_1 == height_at(0)
        front_2 == height_at(1)
        back_2 == height_at(sat_sub(len, 2))
        back_1 == height_at(sat_sub(len, 1))
    IN  IF prevent_all /\ i = 0 THEN front_1 + leading + front_2 + leading + back_1
        ELSE IF prevent_orphans /\ i = 0 THEN front_1 + leading + front_2
        ELSE IF prevent_widows /\ i >= 2 /\ i + 2 = len THEN back_2 + leading + back_1
        ELSE lines[i + 1].h

\* Collector::lines: the children pushed for the laid-out lines.
RECURSIVE lines_from(_, _, _, _, _, _)
lines_from(lines, leading, orphan, widow, src, i) ==
    IF i >= Len(lines) THEN <<>>
    ELSE (IF i > 0 THEN <<RelChild(leading, 5, src)>> ELSE <<>>)
         \o <<LineChild(lines[i + 1], lines_need(lines, leading, orphan, widow, i), src)>>
         \o lines_from(lines, leading, orphan, widow, src, i + 1)

collect_lines(lines, leading, orphan, widow, src) ==
    lines_from(lines, leading, orphan, widow, src, 0)

\* Collector::par: the children pushed for paragraph e.
collect_par(e, src, use_deferred_par, par_situation) ==
    IF use_deferred_par
    THEN <<ParChild(e, par_situation, src)>>
    ELSE <<RelChild(e.spacing, 4, src)>>
         \o collect_lines(layout_par(e, src, FALSE), e.leading, e.orphan, e.widow, src)
         \o <<RelChild(e.spacing, 4, src)>>

\* The `spacing` closure of Collector::block.
block_spacing(amount, src) ==
    CASE amount.kind = "auto" -> RelChild(amount.amount, 4, src)
      [] amount.kind = "rel" -> RelChild(amount.amount, 3, src)
      [] amount.kind = "fr" -> FrChild(amount.amount, 2, src)

\* Collector::block: the children pushed for block e.
collect_block(e, src, alone) ==
    <<block_spacing(e.above, src),
      IF ~e.breakable \/ e.fr # None THEN SingleChild(e, alone, src)
      ELSE MultiChild(e, alone, src),
      block_spacing(e.below, src)>>

\* Collector::v.
collect_v(e, src) ==
    IF e.fr THEN FrChild(e.amount, IF e.weak THEN 1 ELSE 0, src)
    ELSE RelChild(e.amount, IF e.weak THEN 1 ELSE 0, src)

\* SourceResult<Vec<Child>>: Ok with the children, or Err with the message
\* of the diagnostic and the element it points at; `warnings` is what the
\* engine's sink has received.
Ok(output, warnings) == [ok |-> TRUE, children |-> output, warnings |-> warnings]
Err(message, at, warnings) == [ok |-> FALSE, error |-> message, at |-> at, warnings |-> warnings]

\* Collector::place: the error it bails with, if any.  align_y is "auto"
\* (Smart::Auto), "none" (an alignment without a vertical component), "top",
\* "horizon" or "bottom".
place_error(e) ==
    IF e.float /\ e.align_y \in {"none", "horizon"}
    THEN Some("vertical floating placement must be auto, top, or bottom")
    ELSE IF ~e.float /\ e.align_y = "auto"
    THEN Some("automatic positioning is only available for floating placement")
    ELSE IF ~e.float /\ e.scope = "parent"
    THEN Some("parent-scoped positioning is currently only available for floating placement")
    ELSE None

\* Collector::run_block with tags resetting par_situation: a paragraph after
\* a tag counts as the first.
RECURSIVE run_block_tag_resets(_, _, _, _, _, _)
run_block_tag_resets(flow, i, output, par_situation, use_deferred_par, warnings) ==
    IF i > Len(flow) THEN Ok(output, warnings)
    ELSE LET e == flow[i]
             go(more, situation) ==
                 run_block_tag_resets(flow, i + 1, output \o more, situation,
                                      use_deferred_par, warnings)
         IN  CASE e.e = "Tag" -> go(<<TagChild(i)>>, "First")
               [] e.e = "V" -> go(<<collect_v(e, i)>>, par_situation)
               [] e.e = "Par" ->
                    IF ~use_deferred_par /\ e.bad
                    THEN Err("paragraph layout failed", i, warnings)
                    ELSE go(collect_par(e, i, use_deferred_par, par_situation), "Consecutive")
               [] e.e = "Block" -> go(collect_block(e, i, Len(flow) = 1), "Other")
               [] e.e = "Place" ->
                    IF place_error(e) # None THEN Err(place_error(e)[1], i, warnings)
                    ELSE go(<<PlacedChild(e, i)>>, par_situation)
               [] e.e = "Wrap" -> go(<<WrapChild(i)>>, "Other")
               [] e.e = "Masthead" -> go(<<MastheadChild(i)>>, "Other")
               [] e.e = "Flush" -> go(<<FlushChild(i)>>, par_situation)
               [] e.e = "Colbreak" -> go(<<BreakChild(e.weak, i)>>, par_situation)
               [] e.e = "Pagebreak" ->
                    Err("pagebreaks are not allowed inside of containers", i, warnings)
               [] OTHER ->
                    run_block_tag_resets(flow, i + 1, output, par_situation,
                                         use_deferred_par, Append(warnings, i))

\* Collector::run_block that goes on after an element it rejects.
RECURSIVE run_block_goes_on(_, _, _, _, _, _)
run_block_goes_on(flow, i, output, par_situation, use_deferred_par, warnings) ==
    IF i > Len(flow) THEN Ok(output, warnings)
    ELSE LET e == flow[i]
             go(more, situation) ==
                 run_block_goes_on(flow, i + 1, output \o more, situation, use_deferred_par, warnings)
         IN  CASE e.e = "Tag" -> go(<<TagChild(i)>>, par_situation)
               [] e.e = "V" -> go(<<collect_v(e, i)>>, par_situation)
               [] e.e = "Par" ->
                    IF ~use_deferred_par /\ e.bad THEN go(<<>>, "Consecutive")
                    ELSE go(collect_par(e, i, use_deferred_par, par_situation), "Consecutive")
               [] e.e = "Block" -> go(collect_block(e, i, Len(flow) = 1), "Other")
               [] e.e = "Place" ->
                    IF place_error(e) # None THEN go(<<>>, par_situation)
                    ELSE go(<<PlacedChild(e, i)>>, par_situation)
               [] e.e = "Wrap" -> go(<<WrapChild(i)>>, "Other")
               [] e.e = "Masthead" -> go(<<MastheadChild(i)>>, "Other")
               [] e.e = "Flush" -> go(<<FlushChild(i)>>, par_situation)
               [] e.e = "Colbreak" -> go(<<BreakChild(e.weak, i)>>, par_situation)
               [] e.e = "Pagebreak" -> go(<<>>, par_situation)
               [] OTHER ->
                    run_block_goes_on(flow, i + 1, output, par_situation, use_deferred_par,
                                      Append(warnings, i))

\* Collector::run_block from element i on: the collector's state is its
\* output so far and par_situation; the warnings are those of the sink.
RECURSIVE run_block(_, _, _, _, _, _)
run_block(flow, i, output, par_situation, use_deferred_par, warnings) ==
    IF i > Len(flow) THEN Ok(output, warnings)
    ELSE LET e == flow[i]
             go(more, situation) ==
                 run_block(flow, i + 1, output \o more, situation, use_deferred_par, warnings)
         IN  CASE e.e = "Tag" -> go(<<TagChild(i)>>, par_situation)
               [] e.e = "V" -> go(<<collect_v(e, i)>>, par_situation)
               [] e.e = "Par" ->
                    IF ~use_deferred_par /\ e.bad
                    THEN Err("paragraph layout failed", i, warnings)
                    ELSE go(collect_par(e, i, use_deferred_par, par_situation), "Consecutive")
               [] e.e = "Block" -> go(collect_block(e, i, Len(flow) = 1), "Other")
               [] e.e = "Place" ->
                    IF place_error(e) # None THEN Err(place_error(e)[1], i, warnings)
                    ELSE go(<<PlacedChild(e, i)>>, par_situation)
               [] e.e = "Wrap" -> go(<<WrapChild(i)>>, "Other")
               [] e.e = "Masthead" -> go(<<MastheadChild(i)>>, "Other")
               [] e.e = "Flush" -> go(<<FlushChild(i)>>, par_situation)
               [] e.e = "Colbreak" -> go(<<BreakChild(e.weak, i)>>, par_situation)
               [] e.e = "Pagebreak" ->
                    Err("pagebreaks are not allowed inside of containers", i, warnings)
               [] OTHER ->
                    run_block(flow, i + 1, output, par_situation, use_deferred_par,
                              Append(warnings, i))

\* collect deciding paragraph by paragraph: layout is deferred once a wrap
\* or masthead has been seen.
RECURSIVE collect_seen_so_far(_, _, _)
collect_seen_so_far(flow, i, output) ==
    IF i > Len(flow) THEN Ok(output, <<>>)
    ELSE LET seen == \E j \in 1..i : flow[j].e \in {"Wrap", "Masthead"}
             r == run_block(<<flow[i]>>, 1, <<>>, "First", seen, <<>>)
             at(c) == [c EXCEPT !.src = i]
         IN  IF ~r.ok THEN [r EXCEPT !.at = i]
             ELSE collect_seen_so_far(flow, i + 1,
                      output \o [n \in 1..Len(r.children) |-> at(r.children[n])])

collect_wraps_so_far(flow) == collect_seen_so_far(flow, 1, <<>>)

\* collect in block mode.
collect(flow) ==
    LET has_wraps == \E i \in 1..Len(flow) : flow[i].e \in {"Wrap", "Masthead"}
    IN  run_block(flow, 1, <<>>, "First", has_wraps, <<>>)

\* ---------------------------------------------------------------- elements

Auto(a) == [kind |-> "auto", amount |-> a]
Custom(a) == [kind |-> "rel", amount |-> a]
CustomFr(f) == [kind |-> "fr", amount |-> f]

TagElem == [e |-> "Tag"]
VElem(a, weak) == [e |-> "V", fr |-> FALSE, amount |-> a, weak |-> weak]
VFrElem(f, weak) == [e |-> "V", fr |-> TRUE, amount |-> f, weak |-> weak]
ParElem(units, per, h, blank) ==
    [e |-> "Par", units |-> units, per |-> per, narrow |-> 1, h |-> h,
     leading |-> 1, spacing |-> 2, orphan |-> TRUE, widow |-> TRUE, blank |-> blank,
     bad |-> FALSE]
BadParElem == [ParElem(1, 1, 1, {}) EXCEPT !.bad = TRUE]
BlockElem(h, stk, above, below) ==
    [e |-> "Block", breakable |-> FALSE, sticky |-> stk, h |-> h, empty |-> FALSE,
     rows |-> 0, rowh |-> 0, fr |-> None, bad |-> FALSE,
     above |-> above, below |-> below]
EmptyBlockElem(stk) ==
    [BlockElem(0, stk, Auto(1), Auto(1)) EXCEPT !.empty = TRUE]
BadBlockElem ==
    [BlockElem(1, FALSE, Auto(1), Auto(1)) EXCEPT !.bad = TRUE]
MultiElem(rows, rowh, stk) ==
    [e |-> "Block", breakable |-> TRUE, sticky |-> stk, h |-> 0, empty |-> FALSE,
     rows |-> rows, rowh |-> rowh, fr |-> None, bad |-> FALSE,
     above |-> Auto(1), below |-> Auto(1)]
PlaceWith(float, align_y, scope) ==
    [e |-> "Place", float |-> float, h |-> 1, align_y |-> align_y, scope |-> scope]
PlaceElem(float) == PlaceWith(float, IF float THEN "auto" ELSE "top", "column")
WrapElem == [e |-> "Wrap"]
MastheadElem == [e |-> "Masthead"]
FlushElem == [e |-> "Flush"]
PagebreakElem == [e |-> "Pagebreak"]
OtherElem == [e |-> "Other"]
ColbreakElem(weak) == [e |-> "Colbreak", weak |-> weak]

\* Regions::repeat, and regions with a backlog.
Regs(size, backlog, last) ==
    [size |-> size, full |-> size, backlog |-> backlog, last |-> last]

\* ------------------------------------------------------------ cutout model

\* Dir and its sign (Dir::is_positive): left-to-right and top-to-bottom
\* point into the positive coordinate direction.
Dirs == {"LTR", "RTL", "TTB", "BTT"}

is_positive(dir) == dir \in {"LTR", "TTB"}

\* CutoutSide::is_left.
is_left(side, dir) ==
    CASE (side = "Start" /\ dir = "LTR") \/ (side = "End" /\ dir = "RTL") -> TRUE
      [] (side = "End" /\ dir = "LTR") \/ (side = "Start" /\ dir = "RTL") -> FALSE
      [] side = "Start" /\ dir \in {"TTB", "BTT"} -> TRUE
      [] side = "End" /\ dir \in {"TTB", "BTT"} -> FALSE

\* RegionCutout::new.
RegionCutout_new(y_start, y_end, side, width, clearance) ==
    [y_start |-> y_start, y_end |-> y_end, side |-> side, width |-> width,
     clearance |-> clearance]

\* RegionCutout::total_width.
total_width(c) == c.width + c.clearance

\* RegionCutout::contains_y.
contains_y(c, y) == y >= c.y_start /\ y < c.y_end

\* RegionCutout::overlaps_range.
overlaps_range(c, y_start, y_end) == c.y_start < y_end /\ y_start < c.y_end

\* WidthInfo::new and WidthInfo::full.
WidthInfo_new(available, start_offset, end_offset) ==
    [available |-> available, start_offset |-> start_offset, end_offset |-> end_offset]

WidthInfo_full(width) == WidthInfo_new(width, 0, 0)

\* The loop of width_at: the reductions of the two sides.
RECURSIVE width_at_loop(_, _, _, _)
width_at_loop(cuts, y, start_reduction, end_reduction) ==
    IF cuts = <<>> THEN [start |-> start_reduction, end |-> end_reduction]
    ELSE LET cutout == Head(cuts)
             reduction == total_width(cutout)
         IN  IF ~contains_y(cutout, y)
             THEN width_at_loop(Tail(cuts), y, start_reduction, end_reduction)
             ELSE IF cutout.side = "Start"
             THEN width_at_loop(Tail(cuts), y, Max(start_reduction, reduction), end_reduction)
             ELSE width_at_loop(Tail(cuts), y, start_reduction, Max(end_reduction, reduction))

\* The end of width_at and width_in_range: clamp, and swap for RTL.
width_info(region_width, r, dir) ==
    LET available == Max(region_width - r.start - r.end, 0)
    IN  IF dir \in {"LTR", "TTB", "BTT"}
        THEN WidthInfo_new(available, r.start, r.end)
        ELSE WidthInfo_new(available, r.end, r.start)

\* width_at adding up the reductions of the cutouts of a side.
RECURSIVE width_at_sum_loop(_, _, _, _)
width_at_sum_loop(cuts, y, start_reduction, end_reduction) ==
    IF cuts = <<>> THEN [start |-> start_reduction, end |-> end_reduction]
    ELSE LET cutout == Head(cuts)
             reduction == total_width(cutout)
         IN  IF ~contains_y(cutout, y)
             THEN width_at_sum_loop(Tail(cuts), y, start_reduction, end_reduction)
             ELSE IF cutout.side = "Start"
             THEN width_at_sum_loop(Tail(cuts), y, start_reduction + reduction, end_reduction)
             ELSE width_at_sum_loop(Tail(cuts), y, start_reduction, end_reduction + reduction)

width_at_sums(region_width, y, cuts, dir) ==
    IF cuts = <<>> THEN WidthInfo_full(region_width)
    ELSE width_info(region_width, width_at_sum_loop(cuts, y, 0, 0), dir)

\* width_at letting the last cutout of a side decide its reduction.
RECURSIVE width_at_last_loop(_, _, _, _)
width_at_last_loop(cuts, y, start_reduction, end_reduction) ==
    IF cuts = <<>> THEN [start |-> start_reduction, end |-> end_reduction]
    ELSE LET cutout == Head(cuts)
             reduction == total_width(cutout)
         IN  IF ~contains_y(cutout, y)
             THEN width_at_last_loop(Tail(cuts), y, start_reduction, end_reduction)
             ELSE IF cutout.side = "Start"
             THEN width_at_last_loop(Tail(cuts), y, reduction, end_reduction)
             ELSE width_at_last_loop(Tail(cuts), y, start_reduction, reduction)

width_at_last_wins(region_width, y, cuts, dir) ==
    IF cuts = <<>> THEN WidthInfo_full(region_width)
    ELSE width_info(region_width, width_at_last_loop(cuts, y, 0, 0), dir)

\* width_at.
width_at(region_width, y, cuts, dir) ==
    IF cuts = <<>> THEN WidthInfo_full(region_width)
    ELSE width_info(region_width, width_at_loop(cuts, y, 0, 0), dir)

\* The loop of width_in_range.
RECURSIVE width_in_range_loop(_, _, _, _, _)
width_in_range_loop(cuts, y_start, y_end, start_reduction, end_reduction) ==
    IF cuts = <<>> THEN [start |-> start_reduction, end |-> end_reduction]
    ELSE LET cutout == Head(cuts)
             reduction == total_width(cutout)
         IN  IF ~overlaps_range(cutout, y_start, y_end)
             THEN width_in_range_loop(Tail(cuts), y_start, y_end, start_reduction, end_reduction)
             ELSE IF cutout.side = "Start"
             THEN width_in_range_loop(Tail(cuts), y_start, y_end, Max(start_reduction, reduction), end_reduction)
             ELSE width_in_range_loop(Tail(cuts), y_start, y_end, start_reduction, Max(end_reduction, reduction))

\* width_in_range looking at the top of the range only.
width_in_range_top_only(region_width, y_start, y_end, cuts, dir) ==
    width_at(region_width, y_start, cuts, dir)

\* width_in_range taking the cutouts that cover the whole range only.
width_in_range_covering(region_width, y_start, y_end, cuts, dir) ==
    LET Covers(c) == c.y_start <= y_start /\ y_end <= c.y_end
    IN  width_info(region_width, width_in_range_loop(SelectSeq(cuts, Covers), y_start, y_end, 0, 0), dir)

\* width_in_range.
width_in_range(region_width, y_start, y_end, cuts, dir) ==
    IF cuts = <<>> THEN WidthInfo_full(region_width)
    ELSE width_info(region_width, width_in_range_loop(cuts, y_start, y_end, 0, 0), dir)

\* ----------------------------------------------------------- width provider

\* FixedWidth::width_at.
FixedWidth_width_at(width, cumulative_height) == WidthInfo_full(width)

\* CutoutWidth::new.
CutoutWidth_new(region_width, cuts, y_offset, dir) ==
    [region_width |-> region_width, cutouts |-> cuts, y_offset |-> y_offset, dir |-> dir]

\* CutoutWidth::width_at without the translation to the region.
CutoutWidth_width_at_untranslated(self, cumulative_height) ==
    IF self.cutouts = <<>> THEN WidthInfo_full(self.region_width)
    ELSE width_at(self.region_width, cumulative_height, self.cutouts, self.dir)

\* CutoutWidth::width_at.
CutoutWidth_width_at(self, cumulative_height) ==
    IF self.cutouts = <<>> THEN WidthInfo_full(self.region_width)
    ELSE LET region_y == self.y_offset + cumulative_height
         IN  width_at(self.region_width, region_y, self.cutouts, self.dir)

\* CutoutWidth::is_constant.
CutoutWidth_is_constant(self) == self.cutouts = <<>>

\* ---------------------------------------------------------------- wrap side

\* OuterHAlignment.
OuterHAlignment == {"Start", "End", "Left", "Right"}

\* outer_h_alignment_to_cutout_side.
outer_h_alignment_to_cutout_side(side, dir) ==
    CASE side = "Start" -> "Start"
      [] side = "End" -> "End"
      [] side = "Left" -> IF is_positive(dir) THEN "Start" ELSE "End"
      [] side = "Right" -> IF is_positive(dir) THEN "End" ELSE "Start"

\* -------------------------------------------------------------- CachedCell

\* typst_utils::hash128 of an input: inputs are small numbers and two of
\* them may share a hash.
hash128(input) == input % 3

\* The computation f of a call of get_or_init applied to the input: a layout
\* that depends on the input and on what the closure captures.
call_once(f, input) == 10 * f + input

\* CachedCell::get_or_init storing nothing.
get_or_init_forgets(slot, input, f) ==
    IF slot # None /\ slot[1].hash = hash128(input)
    THEN [slot |-> slot, output |-> slot[1].output, invoked |-> FALSE]
    ELSE [slot |-> slot, output |-> call_once(f, input), invoked |-> TRUE]

\* CachedCell::get_or_init comparing nothing: the computation runs again.
get_or_init_recomputes(slot, input, f) ==
    [slot |-> Some([hash |-> hash128(input), output |-> call_once(f, input)]),
     output |-> call_once(f, input), invoked |-> TRUE]

\* CachedCell::get_or_init: the slot it leaves, the output it returns and
\* whether it has invoked f.
get_or_init(slot, input, f) ==
    LET input_hash == hash128(input)
    IN  IF slot # None /\ slot[1].hash = input_hash
        THEN [slot |-> slot, output |-> slot[1].output, invoked |-> FALSE]
        ELSE LET output == call_once(f, input)
             IN  [slot |-> Some([hash |-> input_hash, output |-> output]),
                  output |-> output, invoked |-> TRUE]

\* ------------------------------------------------------------- the machine

EmptyWork == [cursor |-> 1, tags |-> <<>>, spill |-> None, par_spill |-> None,
              floats |-> <<>>]

\* The state before the composer's first call of distribute, for a flow and
\* the regions it is laid out into.
InitWith(flows, regs) ==
    /\ elems \in flows
    /\ collect(elems).ok
    /\ children = collect(elems).children
    /\ regions \in regs
    /\ work = EmptyWork
    /\ items = <<>>
    /\ sticky = None
    /\ stickable = None
    /\ init = snapshot([work |-> EmptyWork, items |-> <<>>])
    /\ given = regions
    /\ cutouts = {}
    /\ handled = {}
    /\ pc = "idle"
    /\ stop = "ok"
    /\ result = "none"
    /\ out = <<>>
    /\ provider = CutoutWidth_new(0, <<>>, 0, "LTR")
    /\ call = None
    /\ cell = None

\* A handler has run: its state is the distributor's.
Commit(d) ==
    /\ work' = d.work
    /\ regions' = d.regions
    /\ items' = d.items
    /\ sticky' = d.sticky
    /\ stickable' = d.stickable
    /\ cutouts' = d.cutouts
    /\ handled' = d.handled

\* The composer calls distribute (distribute, up to the snapshot): after a
\* frame with the next region, after a relayout with the same region and the
\* work as it was when the region was started.
Call ==
    /\ pc = "idle"
    /\ result \in {"none", "frame", "relayout"}
    /\ ~(result = "frame" /\ done(work))
    /\ Len(out) < MaxCalls
    /\ LET w == IF result = "relayout" THEN init.work
                ELSE [work EXCEPT !.floats = <<>>]
           r == IF result = "frame" THEN regions_next(given) ELSE given
       IN  /\ work' = w
           /\ regions' = r
           /\ given' = r
           /\ init' = snapshot([work |-> w, items |-> <<>>])
    /\ cutouts' = IF result = "frame" THEN {} ELSE cutouts
    /\ items' = <<>>
    /\ sticky' = None
    /\ stickable' = None
    /\ pc' = "spill"
    /\ stop' = "ok"
    /\ UNCHANGED <<children, handled, result, out, provider, call, elems, cell>>

\* A step of run() has returned r: go on at `next` or stop.
Step(r, next) ==
    \E ret \in {r} :
        /\ Commit(ret.d)
        /\ stop' = ret.stop
        /\ pc' = IF ret.stop = "ok" THEN next ELSE "stopped"
        /\ UNCHANGED <<children, init, given, result, out, provider, call, elems, cell>>

\* run(): the spill of a breakable block comes first.
RunMultiSpill ==
    /\ pc = "spill"
    /\ Step(IF work.spill # None
            THEN multi_spill([Cur EXCEPT !.work.spill = None], work.spill[1])
            ELSE Ret(Cur, "ok"),
            "par_spill")

\* run(): then the spill of a deferred paragraph.
RunParSpill ==
    /\ pc = "par_spill"
    /\ Step(IF work.par_spill # None
            THEN par_spill([Cur EXCEPT !.work.par_spill = None], work.par_spill[1])
            ELSE Ret(Cur, "ok"),
            "loop")

\* run(): the loop processes the child at the cursor and advances.
Child(k, r) ==
    /\ pc = "loop"
    /\ head(work) # None
    /\ head(work)[1].k = k
    /\ \E ret \in {r} :
          Step(IF ret.stop = "ok" THEN Ret([ret.d EXCEPT !.work = advance(@)], "ok") ELSE ret,
               "loop")

DoTag == Child("Tag", Ret(tag(Cur, head(work)[1].src), "ok"))
DoRel == Child("Rel", LET c == head(work)[1] IN Ret(rel(Cur, c.a, c.w, work.cursor), "ok"))
DoFr == Child("Fr", LET c == head(work)[1] IN Ret(fr(Cur, c.fr, c.w), "ok"))
DoLine == Child("Line", line(Cur, head(work)[1]))
DoPar == Child("Par", par(Cur, head(work)[1]))
DoSingle == Child("Single", single(Cur, head(work)[1]))
DoMulti == Child("Multi", multi(Cur, head(work)[1]))
DoPlaced == \E queue \in BOOLEAN : Child("Placed", placed(Cur, head(work)[1], queue))
DoWrap == Child("Wrap", wrap(Cur, head(work)[1]))
DoMasthead == Child("Masthead", masthead(Cur, head(work)[1]))
DoFlush == Child("Flush", flush(Cur))
DoBreak == Child("Break", break_(Cur, head(work)[1].weak))

\* distribute: run() is over with Ok or Finish; finalize builds the frame.
Finalize ==
    /\ \/ pc = "loop" /\ head(work) = None
       \/ pc = "stopped" /\ stop \in {"finish", "forced"}
    /\ \E fin \in {finalize(Cur, given.size, init,
                             IF pc = "loop" THEN done(work) ELSE stop = "forced")} :
           /\ Commit(fin.d)
           /\ out' = Append(out, fin.frame)
    /\ pc' = "idle"
    /\ result' = "frame"
    /\ UNCHANGED <<children, init, given, stop, provider, call, elems, cell>>

\* distribute finalizing the region whatever run() ended with.
ReturnErr_finalizes ==
    /\ pc = "stopped"
    /\ stop \in {"relayout", "error"}
    /\ LET fin == finalize(Cur, given.size, init, FALSE)
       IN  /\ Commit(fin.d)
           /\ out' = Append(out, fin.frame)
    /\ pc' = "idle"
    /\ result' = "frame"
    /\ UNCHANGED <<children, init, given, stop, provider, call, elems, cell>>

\* distribute: run() is over with Relayout or Error, which is returned.
ReturnErr ==
    /\ pc = "stopped"
    /\ stop \in {"relayout", "error"}
    /\ pc' = "idle"
    /\ result' = stop
    /\ UNCHANGED <<children, work, regions, items, sticky, stickable, init,
                   given, cutouts, handled, stop, out, provider, call, elems, cell>>

\* ------------------------------------------------------- specifications

\* Flows of blocks, pre-laid paragraphs, spacing, tags and placed elements
\* in one column: the spacing discipline.
SpacingElems ==
    {BlockElem(2, FALSE, Auto(2), Auto(2)),
     BlockElem(2, FALSE, Custom(1), Custom(3)),
     ParElem(2, 1, 1, {}),
     VElem(1, TRUE), VElem(3, TRUE), VElem(1, FALSE),
     VFrElem(1, TRUE), VFrElem(1, FALSE),
     TagElem, PlaceElem(FALSE)}

SpacingRegs == {Regs(12, <<>>, Some(12)), Regs(5, <<>>, Some(12))}

InitSpacing == InitWith(SeqsUpTo(SpacingElems, MaxElems), SpacingRegs)

NextSpacing ==
    \/ Call
    \/ RunMultiSpill
    \/ RunParSpill
    \/ DoTag
    \/ DoRel
    \/ DoFr
    \/ DoLine
    \/ DoSingle
    \/ DoPlaced
    \/ Finalize

SpecSpacing == InitSpacing /\ [][NextSpacing]_vars

\* Flows of blocks, spacing, breaks, floats and tags laid out into pages and
\* columns.
BlockElems ==
    {BlockElem(2, FALSE, Auto(1), Auto(1)),
     BlockElem(4, FALSE, Custom(1), Custom(2)),
     BlockElem(2, TRUE, Auto(1), Auto(1)),
     EmptyBlockElem(TRUE),
     MultiElem(3, 2, FALSE),
     MultiElem(2, 2, TRUE),
     VElem(2, TRUE), VElem(1, FALSE),
     TagElem, PlaceElem(FALSE), PlaceElem(TRUE), FlushElem,
     ColbreakElem(FALSE), ColbreakElem(TRUE)}

BlockRegs ==
    {Regs(5, <<>>, Some(5)), Regs(3, <<>>, Some(6)), Regs(4, <<6>>, None)}

Init == InitWith(SeqsUpTo(BlockElems, MaxElems), BlockRegs)

Next ==
    \/ Call
    \/ RunMultiSpill
    \/ RunParSpill
    \/ DoTag
    \/ DoRel
    \/ DoSingle
    \/ DoMulti
    \/ DoPlaced
    \/ DoFlush
    \/ DoBreak
    \/ Finalize
    \/ ReturnErr

Spec == Init /\ [][Next]_vars

\* ------------------------------------------------------------------ claims

\* Children j-1 and j are weak relative spacings, the first at most as weak
\* as the second, and child j has just been processed.
\* Flows of paragraphs, pre-laid (no sidebar in the flow) and deferred (with
\* a wrap), between blocks, one of which breaks and one of which fails.
ParElems ==
    {ParElem(3, 1, 2, {}), ParElem(3, 1, 2, {2}), ParElem(6, 1, 1, {}),
     ParElem(6, 2, 1, {}),
     BlockElem(2, TRUE, Auto(1), Auto(1)), BlockElem(3, FALSE, Auto(1), Auto(1)),
     MultiElem(3, 2, FALSE), BadBlockElem, WrapElem}

ParRegs ==
    {Regs(4, <<>>, Some(8)), Regs(4, <<>>, Some(6)), Regs(9, <<>>, Some(9)),
     Regs(3, <<5>>, Some(8))}

InitPar == InitWith(SeqsUpTo(ParElems, MaxElems), ParRegs)

NextPar ==
    \/ Call
    \/ RunMultiSpill
    \/ RunParSpill
    \/ DoRel
    \/ DoLine
    \/ DoPar
    \/ DoSingle
    \/ DoMulti
    \/ DoWrap
    \/ Finalize
    \/ ReturnErr

SpecPar == InitPar /\ [][NextPar]_vars

\* The composer going through the regions until the flow is done: flows
\* without floats, wraps and failing blocks, with blocks, sticky blocks,
\* breakable blocks, tags and placed elements, in regions with a finite
\* backlog and a last region of positive height.  Every step of distribute that can be taken is taken
\* eventually: the composer calls again as long as the work is not done, and
\* a call runs to its return.
LiveElems ==
    {BlockElem(2, FALSE, Auto(1), Auto(1)), BlockElem(2, TRUE, Auto(1), Auto(1)),
     BlockElem(4, FALSE, Custom(1), Custom(2)), MultiElem(2, 2, FALSE),
     TagElem, PlaceElem(FALSE)}

LiveRegs == {Regs(5, <<>>, Some(5)), Regs(3, <<4>>, Some(6))}

InitLive == InitWith(SeqsUpTo(LiveElems, MaxElems), LiveRegs)

NextLive ==
    \/ Call
    \/ RunMultiSpill
    \/ RunParSpill
    \/ DoTag
    \/ DoRel
    \/ DoSingle
    \/ DoMulti
    \/ DoPlaced
    \/ Finalize

SpecLive == InitLive /\ [][NextLive]_vars /\ WF_vars(NextLive)

\* The cutout model, the width provider and the side of a wrap on their
\* own: a provider over a region of some width with up to MaxCutouts
\* cutouts, and calls of the functions on it.
MaxCutouts == 2

CutoutSet ==
    {RegionCutout_new(ys[1], ys[2], side, wc[1], wc[2]) :
        ys \in {<<0, 2>>, <<1, 3>>, <<1, 1>>}, side \in {"Start", "End"},
        wc \in {<<1, 0>>, <<2, 1>>}}

Widths == {0, 2, 5}
Offsets == {0, 1}
Heights == 0..3

InitCutout ==
    /\ children = <<>>
    /\ regions = Regs(0, <<>>, None)
    /\ work = EmptyWork
    /\ items = <<>>
    /\ sticky = None
    /\ stickable = None
    /\ init = snapshot([work |-> EmptyWork, items |-> <<>>])
    /\ given = regions
    /\ cutouts = {}
    /\ handled = {}
    /\ pc = "idle"
    /\ stop = "ok"
    /\ result = "none"
    /\ out = <<>>
    /\ \E w \in Widths, cuts \in {<<>>} \cup SeqsUpTo(CutoutSet, MaxCutouts), o \in Offsets, dir \in Dirs :
          provider = CutoutWidth_new(w, cuts, o, dir)
    /\ call = None
    /\ elems = <<>>
    /\ cell = None

\* A call on the provider returns.
Returns(c) ==
    /\ call = None
    /\ call' = Some(c)
    /\ UNCHANGED <<flow_vars, provider, elems, cell>>

WidthAt ==
    \E y \in Heights :
        Returns([fn |-> "width_at", y |-> y,
                 ret |-> width_at(provider.region_width, y, provider.cutouts, provider.dir)])

WidthInRange ==
    \E y_start \in Heights, y_end \in Heights :
        Returns([fn |-> "width_in_range", y_start |-> y_start, y_end |-> y_end,
                 ret |-> width_in_range(provider.region_width, y_start, y_end,
                                        provider.cutouts, provider.dir)])

ProviderWidthAt ==
    \E h \in Heights :
        Returns([fn |-> "CutoutWidth::width_at", h |-> h,
                 ret |-> CutoutWidth_width_at(provider, h)])

FixedWidthAt ==
    \E h \in Heights :
        Returns([fn |-> "FixedWidth::width_at", h |-> h,
                 ret |-> FixedWidth_width_at(provider.region_width, h)])

IsConstant ==
    Returns([fn |-> "CutoutWidth::is_constant", ret |-> CutoutWidth_is_constant(provider)])

CutoutSideOf ==
    \E side \in OuterHAlignment :
        Returns([fn |-> "outer_h_alignment_to_cutout_side", side |-> side,
                 ret |-> outer_h_alignment_to_cutout_side(side, provider.dir)])

NextCutout ==
    \/ WidthAt
    \/ WidthInRange
    \/ ProviderWidthAt
    \/ FixedWidthAt
    \/ IsConstant
    \/ CutoutSideOf

SpecCutout == InitCutout /\ [][NextCutout]_vars

\* The state of the flow when no flow is laid out.
NoFlow ==
    /\ children = <<>>
    /\ regions = Regs(0, <<>>, None)
    /\ work = EmptyWork
    /\ items = <<>>
    /\ sticky = None
    /\ stickable = None
    /\ init = snapshot([work |-> EmptyWork, items |-> <<>>])
    /\ given = regions
    /\ cutouts = {}
    /\ handled = {}
    /\ pc = "idle"
    /\ stop = "ok"
    /\ result = "none"
    /\ out = <<>>

\* A CachedCell on its own: up to MaxLookups calls of get_or_init with an
\* input and a computation.
MaxLookups == 3

CellInputs == 0..5

\* The computations handed to get_or_init.
Computations == 0..1

InitCell ==
    /\ NoFlow
    /\ provider = CutoutWidth_new(0, <<>>, 0, "LTR")
    /\ call = None
    /\ elems = <<>>
    /\ cell = None

GetOrInit ==
    /\ IF call = None THEN TRUE ELSE call[1].n < MaxLookups
    /\ \E input \in CellInputs, f \in Computations :
          LET r == get_or_init(cell, input, f)
          IN  /\ cell' = r.slot
              /\ call' = Some([fn |-> "get_or_init", input |-> input, f |-> f,
                               ret |-> r.output, invoked |-> r.invoked,
                               n |-> IF call = None THEN 1 ELSE call[1].n + 1])
    /\ UNCHANGED <<flow_vars, provider, elems>>

NextCell == GetOrInit

SpecCell == InitCell /\ [][NextCell]_vars

\* collect on its own: flows of every kind of element, among them the
\* elements collect rejects and a paragraph whose layout fails.
CollectElems ==
    {TagElem, VElem(1, TRUE), ParElem(3, 2, 1, {}), ParElem(1, 1, 1, {}), BadParElem,
     BlockElem(2, FALSE, Auto(1), Auto(1)), WrapElem, MastheadElem, PagebreakElem,
     OtherElem, ColbreakElem(TRUE),
     PlaceWith(TRUE, "auto", "column"), PlaceWith(TRUE, "horizon", "column"),
     PlaceWith(TRUE, "none", "parent"), PlaceWith(TRUE, "top", "parent"),
     PlaceWith(FALSE, "auto", "parent"), PlaceWith(FALSE, "top", "parent"),
     PlaceWith(FALSE, "bottom", "column")}

InitCollect ==
    /\ NoFlow
    /\ provider = CutoutWidth_new(0, <<>>, 0, "LTR")
    /\ call = None
    /\ elems \in SeqsUpTo(CollectElems, MaxElems)
    /\ cell = None

\* collect is called for the elements and returns.
Collect ==
    /\ call = None
    /\ call' = Some([fn |-> "collect", ret |-> collect(elems)])
    /\ UNCHANGED <<flow_vars, provider, elems, cell>>

NextCollect == Collect

SpecCollect == InitCollect /\ [][NextCollect]_vars

\* collect for flows one element longer, of the elements that bear on
\* par_situation: paragraphs, blocks, wraps and mastheads, and the elements
\* that pass it on.
SituationElems ==
    {TagElem, VElem(1, TRUE), ParElem(1, 1, 1, {}), BlockElem(2, FALSE, Auto(1), Auto(1)),
     WrapElem, MastheadElem, PlaceWith(TRUE, "top", "column"), FlushElem,
     ColbreakElem(TRUE)}

InitSituation ==
    /\ NoFlow
    /\ provider = CutoutWidth_new(0, <<>>, 0, "LTR")
    /\ call = None
    /\ elems \in SeqsUpTo(SituationElems, MaxElems + 1)
    /\ cell = None

NextSituation == Collect

SpecSituation == InitSituation /\ [][NextSituation]_vars

\* Collector::lines on its own: the laid out lines of a paragraph, of
\* different heights, some of them empty, with the leading and the costs of
\* its styles.
MaxLines == 4

LaidLines == {mkframe(h, e, FALSE, 1, 1, 1) : h \in 1..3, e \in BOOLEAN}

InitLines ==
    /\ NoFlow
    /\ provider = CutoutWidth_new(0, <<>>, 0, "LTR")
    /\ call = None
    /\ cell = None
    /\ \E ls \in SeqsUpTo(LaidLines, MaxLines), l \in 0..1, o \in BOOLEAN, w \in BOOLEAN :
          elems = <<[e |-> "Lines", lines |-> ls, leading |-> l, orphan |-> o, widow |-> w]>>

\* Collector::lines is called for the lines and has pushed its children.
Lines ==
    /\ call = None
    /\ call' = Some([fn |-> "lines",
                     ret |-> collect_lines(elems[1].lines, elems[1].leading,
                                           elems[1].orphan, elems[1].widow, 1)])
    /\ UNCHANGED <<flow_vars, provider, elems, cell>>

NextLines == Lines

SpecLines == InitLines /\ [][NextLines]_vars

\* The loop of Distributor::run over the children cs from child i on, for
\* children that are tags, spacing, lines, paragraphs and blocks.
RECURSIVE run_loop(_, _, _)
run_loop(d, cs, i) ==
    IF i > Len(cs) THEN Ret(d, "ok")
    ELSE LET c == cs[i]
             r == CASE c.k = "Tag" -> Ret(tag(d, c.src), "ok")
                    [] c.k = "Rel" -> Ret(rel(d, c.a, c.w, i), "ok")
                    [] c.k = "Line" -> line(d, c)
                    [] c.k = "Par" -> par(d, c)
                    [] c.k = "Single" -> single(d, c)
         IN  IF r.stop # "ok" THEN r
             ELSE run_loop([r.d EXCEPT !.work = advance(@)], cs, i + 1)

\* Flows without wraps and mastheads whose paragraphs the collector leaves
\* to the distributor (Collector::use_deferred_par set), laid out into one
\* region of unbounded height: no backlog, no last region, and a height no
\* flow of the model uses up.
DeferElems ==
    {TagElem, VElem(1, TRUE), VElem(3, FALSE),
     ParElem(3, 1, 2, {}), ParElem(3, 1, 2, {2}), ParElem(4, 2, 1, {}),
     ParElem(1, 1, 1, {}),
     BlockElem(2, TRUE, Auto(1), Auto(1)), BlockElem(3, FALSE, Custom(1), Custom(2))}

InfRegs == Regs(1000, <<>>, None)

InitDefer ==
    /\ elems \in SeqsUpTo(DeferElems, MaxElems)
    /\ children = run_block(elems, 1, <<>>, "First", TRUE, <<>>).children
    /\ regions = InfRegs
    /\ work = EmptyWork
    /\ items = <<>>
    /\ sticky = None
    /\ stickable = None
    /\ init = snapshot([work |-> EmptyWork, items |-> <<>>])
    /\ given = regions
    /\ cutouts = {}
    /\ handled = {}
    /\ pc = "idle"
    /\ stop = "ok"
    /\ result = "none"
    /\ out = <<>>
    /\ provider = CutoutWidth_new(0, <<>>, 0, "LTR")
    /\ call = None
    /\ cell = None

NextDefer ==
    \/ Call
    \/ RunMultiSpill
    \/ RunParSpill
    \/ DoTag
    \/ DoRel
    \/ DoPar
    \/ DoSingle
    \/ Finalize

SpecDefer == InitDefer /\ [][NextDefer]_vars

\* Flows with breakable blocks laid out into short regions, one of them of
\* no height: a block is resumed several times, also in a full region.
MultiElems ==
    {MultiElem(3, 2, FALSE), MultiElem(4, 1, FALSE), MultiElem(2, 2, TRUE),
     BlockElem(1, FALSE, Auto(1), Auto(1)), BlockElem(2, TRUE, Auto(1), Auto(1)),
     VElem(1, FALSE), TagElem}

MultiRegs ==
    {Regs(3, <<0, 2>>, Some(2)), Regs(2, <<>>, Some(2)), Regs(2, <<3>>, None),
     Regs(3, <<2, 0>>, Some(4)), Regs(5, <<1, 2, 2>>, Some(2))}

InitMulti == InitWith(SeqsUpTo(MultiElems, MaxElems), MultiRegs)

NextMulti ==
    \/ Call
    \/ RunMultiSpill
    \/ RunParSpill
    \/ DoTag
    \/ DoRel
    \/ DoSingle
    \/ DoMulti
    \/ Finalize

SpecMulti == InitMulti /\ [][NextMulti]_vars

\* Flows of blocks, sticky blocks, fractional blocks, blocks with fractional
\* spacing, pre-laid lines and spacing of every kind, laid out into regions some of
\* which have no region after them that differs.
FitElems ==
    {BlockElem(2, FALSE, Auto(1), Auto(1)),
     BlockElem(2, TRUE, Auto(1), Auto(1)),
     BlockElem(4, FALSE, CustomFr(2), CustomFr(1)),
     [BlockElem(2, FALSE, Custom(1), Auto(1)) EXCEPT !.fr = Some(1)],
     ParElem(2, 1, 2, {}),
     VFrElem(1, TRUE), VFrElem(2, TRUE), VFrElem(1, FALSE),
     VElem(1, TRUE), VElem(1, FALSE), TagElem}

FitRegs ==
    {Regs(3, <<>>, None), Regs(3, <<>>, Some(3)), Regs(5, <<4>>, Some(6)),
     Regs(1, <<>>, Some(1))}

InitFit == InitWith(SeqsUpTo(FitElems, MaxElems), FitRegs)

NextFit ==
    \/ Call
    \/ RunMultiSpill
    \/ RunParSpill
    \/ DoTag
    \/ DoRel
    \/ DoFr
    \/ DoLine
    \/ DoSingle
    \/ Finalize

SpecFit == InitFit /\ [][NextFit]_vars

WeakPairDone(j) ==
    /\ pc = "loop"
    /\ work.cursor = j + 1
    /\ children[j - 1].k = "Rel" /\ children[j - 1].w >= 1
    /\ children[j].k = "Rel" /\ children[j].w >= 1
    /\ children[j - 1].w <= children[j].w

\* The spacing items that hold the pair j-1, j: those last written by one of
\* the two.
PairItems(j) ==
    {i \in 1..Len(items) : items[i].k = "Abs" /\ items[i].by \in {j - 1, j}}

RECURSIVE LastNonEmpty(_, _)
LastNonEmpty(its, i) ==
    IF i = 0 THEN 0
    ELSE IF \/ its[i].k = "Frame" /\ ~its[i].frame.empty
            \/ its[i].k = "Fr" /\ its[i].single # None
    THEN i
    ELSE LastNonEmpty(its, i - 1)

\* Frame o of the history ends on a sticky block.
EndsSticky(o) ==
    LET i == LastNonEmpty(o.items, Len(o.items))
    IN  i > 0 /\ o.items[i].k = "Frame" /\ o.items[i].sticky

\* The sticky block frame o ends on.
LastBlock(o) == o.items[LastNonEmpty(o.items, Len(o.items))]

\* C2 as stated: a sticky block is the last non-empty item of the frame of a
\* non-final region only if regions.may_progress() was false when that block
\* was pushed.
C2_AsStated ==
    \A n \in 1..Len(out) :
        ~out[n].last /\ EndsSticky(out[n]) => ~LastBlock(out[n]).mp

\* C2 amended: a sticky block is the last non-empty item of the frame of a
\* non-final region that finished unforced only if stickiness was disabled
\* for its group of consecutive sticky blocks, that is, only if
\* regions.may_progress() was false when the first block of the group was
\* pushed.
C2_StickyMigrates ==
    \A n \in 1..Len(out) :
        ~out[n].last /\ ~out[n].forced /\ EndsSticky(out[n]) =>
            LastBlock(out[n]).able = Some(FALSE)

\* A sticky block was pushed while the region could progress, the region
\* then finished unforced, and the block was taken out of the region's items.
C2_Witness ==
    /\ pc = "idle" /\ result = "frame"
    /\ ~out[Len(out)].forced /\ ~out[Len(out)].last
    /\ \E i \in 1..Len(out[Len(out)].dropped) :
           LET it == out[Len(out)].dropped[i]
           IN  it.k = "Frame" /\ it.sticky /\ it.mp

\* C3 as stated: the Abs amounts and Frame heights of the finalized items of
\* a region sum to at most the height the region started with.
C3_AsStated ==
    \A n \in 1..Len(out) : out[n].sum <= out[n].size0

\* C3 amended: the Abs amounts and Frame heights of the finalized items of a
\* region sum to at most the height the region started with minus the height
\* regions.size.y left over at finalization, hence to at most the initial
\* height whenever nothing was pushed beyond the remaining height.
C3_Accounted ==
    \A n \in 1..Len(out) : out[n].sum + out[n].left <= out[n].size0

\* A region was finalized with a frame and a spacing among its items, a
\* weak spacing trimmed, and height left over.
C3_Witness ==
    /\ pc = "idle" /\ result = "frame"
    /\ LET o == out[Len(out)]
       IN  /\ o.left >= 0 /\ o.sum > 0
           /\ \E i \in 1..Len(o.items) : o.items[i].k = "Frame" /\ o.items[i].frame.h > 0
           /\ \E i \in 1..Len(o.items) : o.items[i].k = "Abs" /\ o.items[i].a > 0
           /\ work.cursor > 1
           /\ children[work.cursor - 1].k = "Rel" /\ children[work.cursor - 1].w >= 1
           /\ o.items[Len(o.items)].k = "Frame"

\* The flow elements that are paragraphs.
ParSrcs ==
    {children[i].src : i \in {j \in 1..Len(children) : children[j].k \in {"Line", "Par"}}}

\* The line frames of paragraph src among the items its.
LineFrames(its, src) ==
    LET IsLine(it) == it.k = "Frame" /\ it.frame.src = src
        lines == SelectSeq(its, IsLine)
    IN  [i \in 1..Len(lines) |-> lines[i].frame]

\* The number of line frames of paragraph src in the frames of the first n
\* regions.
RECURSIVE LinesOut(_, _)
LinesOut(src, n) ==
    IF n = 0 THEN 0
    ELSE LinesOut(src, n - 1) + Len(LineFrames(out[n].items, src))

\* The words of paragraph src in the line frames among the items its.
UnitsIn(its, src) ==
    UNION {LET f == LineFrames(its, src)[i] IN f.lo..f.hi :
               i \in 1..Len(LineFrames(its, src))}

\* The words of paragraph src in the frames of the first n regions.
UnitsOut(src, n) == UNION {UnitsIn(out[m].items, src) : m \in 1..n}

\* The lines of paragraph src that are still to be laid out: the frames of
\* its spill, or its Line children from the cursor on.
PendingLines(src) ==
    IF work.par_spill # None /\ work.par_spill[1].src = src
    THEN work.par_spill[1].frames
    ELSE LET IsLine(c) == c.k = "Line" /\ c.src = src
             rest == SelectSeq(SubSeq(children, work.cursor, Len(children)), IsLine)
         IN  [i \in 1..Len(rest) |-> rest[i].frame]

\* The leading of paragraph src: that of its Par child, or the spacing child
\* collected after its first line.
LeadingOf(src) ==
    LET i == CHOOSE j \in 1..Len(children) :
                 children[j].src = src /\ children[j].k \in {"Line", "Par"}
    IN  IF children[i].k = "Par" THEN children[i].par.leading
        ELSE IF i < Len(children) /\ children[i + 1].k = "Rel" /\ children[i + 1].w = 5
        THEN children[i + 1].a
        ELSE 0

\* C5: whenever a ParSpill is stored, its lines_placed is the number of line
\* frames of its paragraph in the frames of the regions produced so far
\* (with those of the running region while it waits to be finalized).
C5_LinesPlaced ==
    work.par_spill # None =>
        LET sp == work.par_spill[1]
        IN  sp.lines_placed =
                LinesOut(sp.src, Len(out))
                    + (IF pc = "stopped" THEN Len(LineFrames(items, sp.src)) ELSE 0)

\* A ParSpill is stored after the second region that holds lines of its
\* paragraph.
C5_Witness ==
    /\ pc = "idle" /\ result = "frame" /\ Len(out) >= 2
    /\ work.par_spill # None
    /\ LET sp == work.par_spill[1]
       IN  /\ sp.lines_placed >= 2
           /\ Len(LineFrames(out[Len(out)].items, sp.src)) >= 1
           /\ Len(LineFrames(out[Len(out) - 1].items, sp.src)) >= 1

\* Paragraph src has its first line alone in the frame of the region just
\* finalized, and at least two more lines to come.
FirstLineAlone(src) ==
    /\ pc = "idle" /\ result = "frame"
    /\ Len(LineFrames(out[Len(out)].items, src)) = 1
    /\ LineFrames(out[Len(out)].items, src)[1].lo = 1
    /\ Len(PendingLines(src)) >= 2

\* The height of the first two lines of paragraph src with their leading,
\* when its first line stands alone.
FirstTwo(src) ==
    LineFrames(out[Len(out)].items, src)[1].h + LeadingOf(src) + PendingLines(src)[1].h

\* The need of the first line of paragraph src, when its first line stands
\* alone.
FirstNeed(src) ==
    IF Len(PendingLines(src)) = 2
    THEN FirstTwo(src) + LeadingOf(src) + PendingLines(src)[2].h
    ELSE FirstTwo(src)

\* C4 as stated: the first line of a paragraph of three or more lines is
\* never alone in a region when the first two lines and one leading fit the
\* next region.
C4_AsStated ==
    \A src \in ParSrcs :
        ~(FirstLineAlone(src) /\ next_fits(given, FirstTwo(src)))

\* C4 amended: the first line of a paragraph of three or more lines whose
\* second line is not empty is never alone in a region when the need of the
\* first line fits the next region: all three lines with two leadings for a
\* paragraph of three lines, the first two lines with one leading for a
\* longer one.
C4_NoOrphan ==
    \A src \in ParSrcs :
        ~(/\ FirstLineAlone(src)
          /\ ~PendingLines(src)[1].empty
          /\ next_fits(given, FirstNeed(src)))

\* The region just finalized ended before the first line of a paragraph of
\* three or more lines with a non-empty second line, whose need did not fit
\* what was left but fits the next region.
C4_Witness ==
    /\ pc = "idle" /\ result = "frame"
    /\ \E src \in ParSrcs :
          /\ LineFrames(out[Len(out)].items, src) = <<>>
          /\ Len(PendingLines(src)) >= 4
          /\ PendingLines(src)[1].lo = 1
          /\ ~PendingLines(src)[2].empty
          /\ LET need == PendingLines(src)[1].h + LeadingOf(src) + PendingLines(src)[2].h
             IN  /\ fits(out[Len(out)].end.size, PendingLines(src)[1].h)
                 /\ ~fits(out[Len(out)].end.size, need)
                 /\ next_fits(given, need)

\* The lines of the paragraph run() was about to lay out when it ended the
\* region of frame o: the frames of the spill it stored before any line was
\* placed, or the Line children from the cursor on when the cursor is at a
\* first line.
LinesAtEnd(o) ==
    LET w == o.end.work
    IN  IF w.par_spill # None
        THEN IF w.par_spill[1].lines_placed = 0 THEN w.par_spill[1].frames ELSE <<>>
        ELSE IF w.cursor <= Len(children) /\ children[w.cursor].k = "Line"
                /\ children[w.cursor].frame.lo = 1
        THEN LET IsLine(c) == c.k = "Line" /\ c.src = children[w.cursor].src
                 rest == SelectSeq(children, IsLine)
             IN  [i \in 1..Len(rest) |-> rest[i].frame]
        ELSE <<>>

\* The region of frame o ended unforced before a paragraph of exactly three
\* lines with a non-empty middle line, whose three lines with their two
\* leadings did not fit what was left of the region but fit the next region.
ThreeDeferred(o) ==
    /\ ~o.forced
    /\ Len(LinesAtEnd(o)) = 3
    /\ ~LinesAtEnd(o)[2].empty
    /\ LET l == LeadingOf(LinesAtEnd(o)[1].src)
           total == LinesAtEnd(o)[1].h + l + LinesAtEnd(o)[2].h + l + LinesAtEnd(o)[3].h
       IN  /\ ~fits(o.end.size, total)
           /\ o.end.next # None
           /\ fits(o.end.next[1], total)

\* The lines of paragraph src as laid out when the region of frame o was
\* filled: its Line children, or for a deferred paragraph the lines placed in
\* the region with those of the spill stored at the end.
LinesIn(o, src) ==
    IF \E j \in 1..Len(children) : children[j].k = "Line" /\ children[j].src = src
    THEN LET IsLine(c) == c.k = "Line" /\ c.src = src
             all == SelectSeq(children, IsLine)
         IN  [j \in 1..Len(all) |-> all[j].frame]
    ELSE LineFrames(o.items, src)
         \o (IF o.end.work.par_spill # None /\ o.end.work.par_spill[1].src = src
             THEN o.end.work.par_spill[1].frames
             ELSE <<>>)

\* Item i of frame o is the first line of a paragraph of exactly three lines
\* with a non-empty middle line, pushed although the three lines with their
\* two leadings did not fit what was left of the region and fit the next
\* region.
ThreeSplit(o, i) ==
    /\ o.items[i].k = "Frame"
    /\ o.items[i].frame.src \in ParSrcs
    /\ o.items[i].frame.lo = 1
    /\ o.end.next # None
    /\ LET lines == LinesIn(o, o.items[i].frame.src)
       IN  /\ Len(lines) = 3
           /\ ~lines[2].empty
           /\ LET l == LeadingOf(lines[1].src)
                  total == lines[1].h + l + lines[2].h + l + lines[3].h
                  avail == o.size0 - current_y_of(SubSeq(o.items, 1, i - 1))
              IN  ~fits(avail, total) /\ fits(o.end.next[1], total)

\* C8 as stated: when the three lines of a paragraph with a non-empty middle
\* line do not fit what is left of a region but fit the next region, no line
\* of it is in the region's frame and all three are in the next frame.
C8_AsStated ==
    \A n \in 1..Len(out) :
        /\ \A i \in 1..Len(out[n].items) : ~ThreeSplit(out[n], i)
        /\ ThreeDeferred(out[n]) /\ n < Len(out) =>
               Len(LineFrames(out[n + 1].items, LinesAtEnd(out[n])[1].src)) = 3

\* C8 amended: in that case no line of the paragraph is in the region's
\* frame, and all three are in the next frame unless the region's restore
\* moved items (a group of sticky blocks) on with the paragraph.
C8_ThreeTogether ==
    \A n \in 1..Len(out) :
        /\ \A i \in 1..Len(out[n].items) : ~ThreeSplit(out[n], i)
        /\ ThreeDeferred(out[n]) /\ out[n].dropped = <<>> /\ n < Len(out) =>
               Len(LineFrames(out[n + 1].items, LinesAtEnd(out[n])[1].src)) = 3

\* A region ended before a paragraph of three lines that fit the next region
\* only, nothing was moved on with it, and the next frame holds the three.
C8_Witness ==
    /\ pc = "idle" /\ result = "frame" /\ Len(out) >= 2
    /\ ThreeDeferred(out[Len(out) - 1])
    /\ out[Len(out) - 1].dropped = <<>>
    /\ Len(LineFrames(out[Len(out)].items, LinesAtEnd(out[Len(out) - 1])[1].src)) = 3

\* The region just finalized was started with the spill of a paragraph laid
\* out with cutouts, and has no cutouts: the spill was resumed by laying the
\* paragraph out again at full width.
ResumedFullWidth ==
    /\ pc = "idle" /\ result = "frame"
    /\ init.work.par_spill # None
    /\ init.work.par_spill[1].par # None
    /\ cutouts = {}

\* C6: when the spill of a paragraph laid out with cutouts is resumed in a
\* region without cutouts, the lines emitted are the remainder of the
\* paragraph: no word emitted in an earlier region is emitted again, none is
\* left out between the regions, and a paragraph that is finished has all its
\* words in the frames.
C6_ExactRemainder ==
    ResumedFullWidth =>
        LET sp == init.work.par_spill[1]
            before == UnitsOut(sp.src, Len(out) - 1)
            here == UnitsIn(out[Len(out)].items, sp.src)
        IN  /\ before \cap here = {}
            /\ \A u \in here : \A v \in 1..u : v \in before \cup here
            /\ work.par_spill = None => before \cup here = 1..sp.par[1].par.units

\* The sticky blocks run() ended on in the region of frame o: the sticky
\* frames after which no non-sticky non-empty frame was pushed.
TrailingSticky(o) ==
    {i \in 1..Len(o.end.items) :
        /\ o.end.items[i].k = "Frame" /\ o.end.items[i].sticky
        /\ \A j \in (i + 1)..Len(o.end.items) :
               ~(/\ o.end.items[j].k = "Frame"
                 /\ ~o.end.items[j].sticky
                 /\ ~o.end.items[j].frame.empty)}

\* The first of them.
FirstSticky(o) == CHOOSE i \in TrailingSticky(o) : \A j \in TrailingSticky(o) : i <= j

\* The work is at the block of the first sticky frame the region of frame o
\* ended on, with no spill, and no item from that frame on is in o.
RestoredBefore(o) ==
    /\ Len(o.items) < FirstSticky(o)
    /\ work.cursor <= Len(children)
    /\ children[work.cursor].k \in {"Single", "Multi"}
    /\ children[work.cursor].src = o.end.items[FirstSticky(o)].frame.src
    /\ work.spill = None /\ work.par_spill = None

C9_SpillsFirst ==
    [][/\ pc = "idle" /\ pc' # "idle" => pc' = "spill"
       /\ pc = "spill" =>
              /\ pc' \in {"par_spill", "stopped"}
              /\ work'.cursor = init.work.cursor
              /\ pc' = "par_spill" => work'.spill = None
       /\ pc = "par_spill" =>
              /\ pc' \in {"loop", "stopped"}
              /\ work'.cursor = init.work.cursor
              /\ pc' = "loop" => work'.spill = None /\ work'.par_spill = None
       /\ pc = "loop" /\ work'.cursor # work.cursor =>
              work.spill = None /\ work.par_spill = None
       /\ pc = "stopped" /\ work.cursor = init.work.cursor =>
              work'.cursor = init.work.cursor]_vars

\* A call was started with the spill of a paragraph before children that are
\* still to be processed, handling the spill finished the region, and the
\* call has returned a frame.
C9_Witness ==
    /\ pc = "idle" /\ result = "frame"
    /\ init.work.par_spill # None
    /\ out[Len(out)].end.work.par_spill # None
    /\ Len(LineFrames(out[Len(out)].items, init.work.par_spill[1].src)) >= 1
    /\ work.cursor = init.work.cursor
    /\ work.cursor <= Len(children)

RECURSIVE InFlow(_)
InFlow(n) ==
    IF n = 0 THEN <<>>
    ELSE LET IsFlow(it) == it.k = "Frame" \/ (it.k = "Fr" /\ it.single # None)
             its == SelectSeq(out[n].items, IsFlow)
         IN  InFlow(n - 1) \o
             [i \in 1..Len(its) |->
                 IF its[i].k = "Frame"
                 THEN [src |-> its[i].frame.src, lo |-> its[i].frame.lo,
                       hi |-> its[i].frame.hi]
                 ELSE [src |-> its[i].single[1].src, lo |-> 1, hi |-> 1]]

\* C11: across the regions of a flow the in-flow frames appear in the order
\* of their children: a later frame belongs to a later element, or to the
\* same element and carries content after that of the earlier frame; this
\* holds after sticky and initial restores too.
C11_OrderKept ==
    LET fs == InFlow(Len(out))
    IN  \A i \in 1..(Len(fs) - 1) :
            \/ fs[i].src < fs[i + 1].src
            \/ fs[i].src = fs[i + 1].src /\ fs[i].hi < fs[i + 1].lo

\* A restore has moved a sticky block out of a region that kept a frame, and
\* the frame of the next region holds that block again before a later one.
C11_Witness ==
    /\ pc = "idle" /\ result = "frame" /\ Len(out) >= 2
    /\ out[Len(out) - 1].dropped # <<>>
    /\ \E i \in 1..Len(out[Len(out) - 1].items) : out[Len(out) - 1].items[i].k = "Frame"
    /\ \E i \in 1..Len(out[Len(out)].items) : \E j \in 1..Len(out[Len(out) - 1].dropped) :
          /\ out[Len(out)].items[i].k = "Frame"
          /\ out[Len(out) - 1].dropped[j].k = "Frame"
          /\ out[Len(out)].items[i].frame.src = out[Len(out) - 1].dropped[j].frame.src
          /\ i < Len(out[Len(out)].items)
          /\ out[Len(out)].items[Len(out[Len(out)].items)].k = "Frame"

Returned == pc = "idle" /\ result = "frame" /\ out # <<>>

AllMigratable(its) == \A i \in 1..Len(its) : migratable(its[i])

\* C13 as stated: after an unforced finish of a region all of whose items are
\* migratable the work is what it was at the start of the call and the frame
\* holds none of the items; a forced finish restores nothing.
C13_AsStated ==
    Returned =>
        LET o == out[Len(out)]
        IN  /\ (~o.forced /\ AllMigratable(o.end.items))
                  => (work = init.work /\ o.items = <<>>)
            /\ o.forced => (o.dropped = <<>> /\ work = [o.end.work EXCEPT !.tags = <<>>])

\* C13: after an unforced finish of a region that has items, all of them
\* migratable, the work is what it was at the start of the call and the frame
\* holds none of the items; a forced finish restores nothing.
C13_MigratesAll ==
    Returned =>
        LET o == out[Len(out)]
        IN  /\ (~o.forced /\ o.end.items # <<>> /\ AllMigratable(o.end.items))
                  => (work = init.work /\ o.items = <<>> /\ o.dropped = o.end.items)
            /\ o.forced => (o.dropped = <<>> /\ work = [o.end.work EXCEPT !.tags = <<>>])

\* A region with nothing but migratable items has finished unforced after the
\* cursor had moved on.
C13_Witness ==
    /\ Returned
    /\ ~out[Len(out)].forced
    /\ out[Len(out)].end.items # <<>>
    /\ AllMigratable(out[Len(out)].end.items)
    /\ out[Len(out)].end.work # init.work

\* C14: a break that is weak with no item in the region, or that has no
\* region to break into, leaves the region as it is and the loop advances the
\* cursor past it; any other break advances the cursor past itself once and
\* ends the region, which is then finalized as forced.
C14_Break ==
    [][/\ (pc = "loop" /\ head(work) # None /\ head(work)[1].k = "Break") =>
             /\ work' = advance(work)
             /\ items' = items
             /\ regions' = regions
             /\ IF \/ head(work)[1].weak /\ items = <<>>
                   \/ regions.backlog = <<>> /\ regions.last = None
                THEN pc' = "loop"
                ELSE pc' = "stopped" /\ stop' = "forced"
       /\ (pc = "stopped" /\ stop = "forced") =>
             /\ pc' = "idle"
             /\ Len(out') = Len(out) + 1
             /\ out'[Len(out')].forced
             /\ work'.cursor = work.cursor]_vars

\* A strong break has ended the first region as forced, and in the last
\* region, which holds items, a break has been passed without effect.
C14_Witness ==
    /\ pc = "loop" /\ items # <<>>
    /\ regions.backlog = <<>> /\ regions.last = None
    /\ work.cursor > 1 /\ children[work.cursor - 1].k = "Break"
    /\ Len(out) = 1 /\ out[1].forced /\ ~out[1].last
    /\ children[out[1].end.work.cursor - 1].k = "Break"

\* The call that has returned, if it is a call of fn.
Called(fn) == call # None /\ call[1].fn = fn

\* The largest width + clearance among the provider's cutouts on a side that
\* satisfy Applies, 0 if there is none.
Reduction(side, Applies(_)) ==
    LET S == {provider.cutouts[i].width + provider.cutouts[i].clearance :
                 i \in {j \in 1..Len(provider.cutouts) :
                           provider.cutouts[j].side = side /\ Applies(provider.cutouts[j])}}
    IN  IF S = {} THEN 0 ELSE CHOOSE m \in S : \A x \in S : x <= m

C16_Monotone ==
    Called("width_at") =>
        \A i \in 1..Len(provider.cutouts) :
            call[1].ret.available <=
                width_at(provider.region_width, call[1].y, remove(provider.cutouts, i),
                         provider.dir).available

\* width_at has returned for two cutouts on the two sides: the second one
\* narrows the width the first one leaves, the first one does not narrow
\* the width the second one leaves.
C16_Witness ==
    /\ Called("width_at")
    /\ Len(provider.cutouts) = 2
    /\ provider.cutouts[1].side # provider.cutouts[2].side
    /\ call[1].ret.available <
          width_at(provider.region_width, call[1].y, <<provider.cutouts[1]>>, provider.dir).available
    /\ call[1].ret.available =
          width_at(provider.region_width, call[1].y, <<provider.cutouts[2]>>, provider.dir).available

\* The heights of a range [y_start, y_end).
Range(y_start, y_end) == {y \in Heights : y_start <= y /\ y < y_end}

\* The width width_at returns at height y for the provider's region.
AvailableAt(y) ==
    width_at(provider.region_width, y, provider.cutouts, provider.dir).available

Overlapping ==
    {i \in 1..Len(provider.cutouts) :
        overlaps_range(provider.cutouts[i], call[1].y_start, call[1].y_end)}

C18_WorstCase ==
    (Called("width_in_range") /\ call[1].y_start < call[1].y_end) =>
        \A y \in Range(call[1].y_start, call[1].y_end) :
            LET at == width_at(provider.region_width, y, provider.cutouts, provider.dir)
            IN  /\ call[1].ret.available <= at.available
                /\ call[1].ret.start_offset >= at.start_offset
                /\ call[1].ret.end_offset >= at.end_offset

\* width_in_range has returned for a range with cutouts on both sides at
\* different heights: it is narrower than width_at at every height of the
\* range.
C18_Witness ==
    /\ Called("width_in_range")
    /\ call[1].y_start < call[1].y_end
    /\ \A y \in Range(call[1].y_start, call[1].y_end) : call[1].ret.available < AvailableAt(y)
    /\ call[1].ret.start_offset > 0 /\ call[1].ret.end_offset > 0

\* C19: CutoutWidth::width_at(h) is width_at of the cutout model at
\* y_offset + h; without cutouts it is what FixedWidth of the same width
\* returns, the full width with no offsets; and is_constant() holds exactly
\* if there is no cutout.
C19_Provider ==
    /\ Called("CutoutWidth::width_at") =>
          /\ call[1].ret = width_at(provider.region_width, provider.y_offset + call[1].h,
                                    provider.cutouts, provider.dir)
          /\ provider.cutouts = <<>> =>
                /\ call[1].ret = FixedWidth_width_at(provider.region_width, call[1].h)
                /\ call[1].ret = [available |-> provider.region_width,
                                  start_offset |-> 0, end_offset |-> 0]
    /\ Called("CutoutWidth::is_constant") => (call[1].ret <=> provider.cutouts = <<>>)

\* The provider of a paragraph that starts above a cutout has returned the
\* narrowed width at a height at which the region itself is not narrowed.
C19_Witness ==
    /\ Called("CutoutWidth::width_at")
    /\ provider.y_offset > 0 /\ provider.cutouts # <<>>
    /\ call[1].ret.available < provider.region_width
    /\ AvailableAt(call[1].h) = provider.region_width

C21_Idempotent ==
    [][(call' # call /\ call' # None) =>
          /\ (call # None /\ hash128(call'[1].input) = hash128(call[1].input))
                => (call'[1].ret = call[1].ret /\ ~call'[1].invoked)
          /\ call'[1].invoked <=> (cell = None \/ cell[1].hash # hash128(call'[1].input))]_vars

\* A second or later call has returned the cached output, which is not what
\* its own computation yields for its input.
C21_Witness ==
    /\ Called("get_or_init")
    /\ call[1].n >= 2
    /\ ~call[1].invoked
    /\ call[1].ret # call_once(call[1].f, call[1].input)

\* The children of the returned collection that come from element i and are
\* of kind k.
ChildrenOf(i, k) ==
    {n \in 1..Len(call[1].ret.children) :
        call[1].ret.children[n].src = i /\ call[1].ret.children[n].k = k}

HasWraps == \E i \in 1..Len(elems) : elems[i].e \in {"Wrap", "Masthead"}

\* C22: if the elements hold a wrap or a masthead anywhere, collect emits
\* each paragraph as one deferred Par child and no Line child; if they hold
\* none, it emits each paragraph as the Line children of its lines and no
\* Par child; Par children and Line children never come together.
C22_DeferredOrLines ==
    (Called("collect") /\ call[1].ret.ok) =>
        /\ \A i \in 1..Len(elems) :
              elems[i].e = "Par" =>
                 IF HasWraps
                 THEN Cardinality(ChildrenOf(i, "Par")) = 1 /\ ChildrenOf(i, "Line") = {}
                 ELSE /\ ChildrenOf(i, "Par") = {}
                      /\ Cardinality(ChildrenOf(i, "Line")) = Len(layout_par(elems[i], i, FALSE))
                      /\ ChildrenOf(i, "Line") # {}
        /\ ~\E i, j \in 1..Len(elems) : ChildrenOf(i, "Par") # {} /\ ChildrenOf(j, "Line") # {}

\* A paragraph that comes before the only wrap or masthead has been emitted
\* as a Par child.
C22_Witness ==
    /\ Called("collect") /\ call[1].ret.ok
    /\ Len(elems) >= 2
    /\ elems[1].e = "Par"
    /\ elems[Len(elems)].e \in {"Wrap", "Masthead"}
    /\ \A i \in 1..(Len(elems) - 1) : elems[i].e \notin {"Wrap", "Masthead"}
    /\ ChildrenOf(1, "Par") # {}

\* The paragraph Collector::lines was called for, and what the claim says
\* about it: the heights of its lines, and when orphans, widows and both
\* are prevented.
LinesArg == elems[1]

LineH(j) == LinesArg.lines[j + 1].h

OrphansPrevented ==
    LinesArg.orphan /\ Len(LinesArg.lines) >= 2 /\ ~LinesArg.lines[2].empty

WidowsPrevented ==
    /\ LinesArg.widow /\ Len(LinesArg.lines) >= 2
    /\ ~LinesArg.lines[Len(LinesArg.lines) - 1].empty

AllPrevented == Len(LinesArg.lines) = 3 /\ OrphansPrevented /\ WidowsPrevented

\* The Line children pushed by the call, in order.
LinesPushed == SelectSeq(call[1].ret, LAMBDA c : c.k = "Line")

\* C24: line i (0-based) of a paragraph of len lines is pushed with the need
\* h[0]+l+h[1]+l+h[len-1] when i = 0 and all is prevented, h[0]+l+h[1] when
\* i = 0 and only orphans are prevented, h[len-2]+l+h[len-1] when i >= 2,
\* i+2 = len and widows are prevented, and h[i] otherwise.
C24_Need ==
    Called("lines") =>
        LET len == Len(LinesArg.lines)
            l == LinesArg.leading
        IN  /\ Len(LinesPushed) = len
            /\ \A i \in 0..(len - 1) :
                  /\ LinesPushed[i + 1].frame = LinesArg.lines[i + 1]
                  /\ LinesPushed[i + 1].need =
                        CASE i = 0 /\ AllPrevented ->
                                LineH(0) + l + LineH(1) + l + LineH(len - 1)
                          [] i = 0 /\ OrphansPrevented /\ ~AllPrevented ->
                                LineH(0) + l + LineH(1)
                          [] i >= 2 /\ i + 2 = len /\ WidowsPrevented ->
                                LineH(len - 2) + l + LineH(len - 1)
                          [] OTHER -> LineH(i)

\* A paragraph of four lines of different heights in which orphans and
\* widows are prevented: its third line asks for the last two.
C24_Witness ==
    /\ Called("lines")
    /\ Len(LinesArg.lines) = 4
    /\ OrphansPrevented /\ WidowsPrevented
    /\ LineH(2) # LineH(3) /\ LineH(0) # LineH(2)
    /\ LinesArg.leading = 1
    /\ LinesPushed[3].need = LineH(2) + 1 + LineH(3)
    /\ LinesPushed[1].need = LineH(0) + 1 + LineH(1)

\* What collect returned.
Collected == call[1].ret

\* Element i is one the claim says collect rejects, and the messages that
\* belong to the reasons that hold of it.
Rejected(i) ==
    \/ elems[i].e = "Pagebreak"
    \/ /\ elems[i].e = "Place"
       /\ \/ elems[i].float /\ elems[i].align_y \notin {"auto", "top", "bottom"}
          \/ ~elems[i].float /\ elems[i].align_y = "auto"
          \/ ~elems[i].float /\ elems[i].scope = "parent"

RejectionsOf(i) ==
    IF elems[i].e = "Pagebreak"
    THEN {"pagebreaks are not allowed inside of containers"}
    ELSE (IF elems[i].float /\ elems[i].align_y \notin {"auto", "top", "bottom"}
          THEN {"vertical floating placement must be auto, top, or bottom"} ELSE {})
         \cup (IF ~elems[i].float /\ elems[i].align_y = "auto"
               THEN {"automatic positioning is only available for floating placement"}
               ELSE {})
         \cup (IF ~elems[i].float /\ elems[i].scope = "parent"
               THEN {"parent-scoped positioning is currently only available for floating placement"}
               ELSE {})

\* Element i is a paragraph that collect lays out itself and whose layout
\* fails.
FailedPar(i) == elems[i].e = "Par" /\ elems[i].bad /\ ~HasWraps

Unrecognised(i) ==
    elems[i].e \notin {"Tag", "V", "Par", "Block", "Place", "Wrap", "Masthead",
                       "Flush", "Colbreak", "Pagebreak"}

\* The unrecognised elements before element n, in order.
UnrecognisedBefore(n) ==
    SelectSeq([i \in 1..Len(elems) |-> i], LAMBDA i : i < n /\ Unrecognised(i))

\* collect went through all elements: each unrecognised one gave a warning
\* and no child.
WarnedAndDropped ==
    /\ Collected.warnings = UnrecognisedBefore(Len(elems) + 1)
    /\ \A n \in 1..Len(Collected.children) : ~Unrecognised(Collected.children[n].src)

\* collect failed at the first of the elements that Stops holds of, with an
\* error and no children, having warned of what it dropped before.
FailedAtFirst(Stops(_)) ==
    /\ "children" \notin DOMAIN Collected
    /\ Stops(Collected.at)
    /\ \A j \in 1..(Collected.at - 1) : ~Stops(j)
    /\ Collected.warnings = UnrecognisedBefore(Collected.at)

\* C25 as stated: collect fails exactly when the elements hold a pagebreak
\* or a placement of the three rejected kinds, with the error of the first
\* of them; anything unrecognised gives a warning and is dropped.
C25_AsStated ==
    Called("collect") =>
        IF \E i \in 1..Len(elems) : Rejected(i)
        THEN /\ ~Collected.ok
             /\ FailedAtFirst(Rejected)
             /\ Collected.error \in RejectionsOf(Collected.at)
        ELSE Collected.ok /\ WarnedAndDropped

\* C25: collect fails exactly when the elements hold a pagebreak, a
\* placement of the three rejected kinds or, with no wrap and no masthead
\* among them, a paragraph whose layout fails; it returns the error of the
\* first of them and no children; anything unrecognised gives a warning and
\* is dropped, and collection goes on.
C25_FailsAtFirst ==
    Called("collect") =>
        LET Stops(i) == Rejected(i) \/ FailedPar(i)
        IN  IF \E i \in 1..Len(elems) : Stops(i)
            THEN /\ ~Collected.ok
                 /\ FailedAtFirst(Stops)
                 /\ IF Rejected(Collected.at)
                    THEN Collected.error \in RejectionsOf(Collected.at)
                    ELSE Collected.error = "paragraph layout failed"
            ELSE Collected.ok /\ WarnedAndDropped

\* An unrecognised element, then a placement that is neither floating nor
\* aligned, then a pagebreak: collect has warned of the first and failed
\* with the error of the second.
C25_Witness ==
    /\ Called("collect")
    /\ Len(elems) = 3
    /\ Unrecognised(1)
    /\ elems[2].e = "Place" /\ Rejected(2)
    /\ elems[3].e = "Pagebreak"
    /\ ~Collected.ok /\ Collected.at = 2 /\ Collected.warnings = <<1>>
    /\ Collected.error = "automatic positioning is only available for floating placement"

\* An item as the frame shows it: without the history kept with it.
Shown(item) ==
    CASE item.k = "Abs" -> [k |-> "Abs", a |-> item.a, w |-> item.w]
      [] item.k = "Frame" -> [k |-> "Frame", frame |-> item.frame, sticky |-> item.sticky]
      [] OTHER -> item

ShownItems(its) == [n \in 1..Len(its) |-> Shown(its[n])]

\* The same elements collected with their paragraphs laid out by the
\* collector, run through the distributor in the same region, and the frame
\* finalize makes of it.
PreLaidRun ==
    run_loop([work |-> EmptyWork, regions |-> InfRegs, items |-> <<>>,
              sticky |-> None, stickable |-> None, cutouts |-> {}, handled |-> {}],
             run_block(elems, 1, <<>>, "First", FALSE, <<>>).children, 1)

PreLaidFrame ==
    finalize(PreLaidRun.d, InfRegs.size,
             snapshot([work |-> EmptyWork, items |-> <<>>]), TRUE).frame

\* C23: in a flow without wraps and mastheads laid out into one unbounded
\* region, the items the distributor holds when it has run through deferred
\* paragraphs, and the frame it returns, are those it gets from the
\* pre-laid children of the same elements.
C23_SamePaths ==
    /\ (pc = "loop" /\ head(work) = None) =>
          /\ PreLaidRun.stop = "ok"
          /\ ShownItems(items) = ShownItems(PreLaidRun.d.items)
          /\ regions.size = PreLaidRun.d.regions.size
    /\ (pc = "idle" /\ result = "frame") =>
          /\ Len(out) = 1
          /\ ShownItems(out[1].items) = ShownItems(PreLaidFrame.items)
          /\ out[1].sum = PreLaidFrame.sum
          /\ out[1].used = PreLaidFrame.used
          /\ out[1].height = PreLaidFrame.height
          /\ out[1].forced = PreLaidFrame.forced

\* The frame of two paragraphs, the first of several lines, one after the
\* other: the spacing between them is there once.
C23_Witness ==
    /\ pc = "idle" /\ result = "frame"
    /\ Len(elems) >= 2
    /\ elems[1].e = "Par" /\ elems[2].e = "Par"
    /\ Len(children) = Len(elems)
    /\ Len(layout_par(elems[1], 1, FALSE)) >= 3
    /\ Len(out[1].items) >= 6
    /\ Cardinality({n \in 1..Len(out[1].items) :
                       out[1].items[n].k = "Abs" /\ out[1].items[n].w = 4}) = 1

\* The cursor is right after the Par child of the paragraph whose spill the
\* work holds.
AfterSpilledPar(w) ==
    /\ w.cursor >= 2
    /\ children[w.cursor - 1].k = "Par"
    /\ children[w.cursor - 1].src = w.par_spill[1].src

\* C26: a deferred Par child is consumed once.  The step of the loop at a
\* Par child moves the cursor on by one, whether the paragraph is completed
\* (no spill is left) or spills (the spill is that paragraph's, and the
\* region ends); the step that resumes a par-spill leaves the cursor where it
\* is, whether the paragraph spills again or is completed; so the cursor
\* stays right after the Par child while its spill is there, and the child
\* after it is the next the loop processes.
C26_ConsumedOnce ==
    [][/\ (pc = "loop" /\ head(work) # None /\ head(work)[1].k = "Par") =>
             /\ work'.cursor = work.cursor + 1
             /\ IF work'.par_spill = None
                THEN pc' = "loop"
                ELSE /\ pc' = "stopped" /\ stop' = "finish"
                     /\ work'.par_spill[1].src = head(work)[1].src
       /\ (pc = "par_spill" /\ work.par_spill # None) =>
             /\ work'.cursor = work.cursor
             /\ IF work'.par_spill = None
                THEN pc' = "loop"
                ELSE /\ pc' = "stopped" /\ stop' = "finish"
                     /\ work'.par_spill[1].src = work.par_spill[1].src
       /\ work'.par_spill # None => AfterSpilledPar(work')]_vars

\* A deferred paragraph that spilled in the first region and again in the
\* second has been completed in the third, and the loop is at the child
\* after it.
C26_Witness ==
    /\ pc = "loop"
    /\ Len(out) = 2
    /\ work.par_spill = None
    /\ work.cursor >= 2 /\ work.cursor <= Len(children)
    /\ children[work.cursor - 1].k = "Par"
    /\ LET src == children[work.cursor - 1].src
       IN  /\ LineFrames(out[1].items, src) # <<>>
           /\ LineFrames(out[2].items, src) # <<>>
           /\ LineFrames(items, src) # <<>>
           /\ out[1].end.work.par_spill # None
           /\ out[2].end.work.par_spill # None

\* The loop is at a breakable block and the region is not full; the frames
\* the block has in the regions as they are, and whether the block is put
\* off: its first frame is empty, a later one is not, and there is a region
\* to go on in.
AtMulti == pc = "loop" /\ head(work) # None /\ head(work)[1].k = "Multi" /\ ~is_full(regions)

MultiFragment == layout_full(head(work)[1], regions)

PutOff ==
    /\ MultiFragment[1].empty
    /\ \E i \in 2..Len(MultiFragment) : ~MultiFragment[i].empty
    /\ may_progress(regions)

\* C27: the step of the loop at a breakable block in a region that is not
\* full.  A block that is put off emits nothing, parks no spill, leaves the
\* cursor on the block and ends the region; any other block has its first
\* frame emitted and the cursor moved past it once, and when frames remain a
\* spill is parked and the region ends unforced.
C27_Multi ==
    [][AtMulti =>
          IF PutOff
          THEN /\ items' = items
               /\ work' = work /\ work'.spill = None
               /\ pc' = "stopped" /\ stop' = "finish"
          ELSE /\ Len(items') > Len(items)
               /\ SubSeq(items', 1, Len(items)) = items
               /\ items'[Len(items')].k = "Frame"
               /\ items'[Len(items')].frame = MultiFragment[1]
               /\ Cardinality({n \in (Len(items) + 1)..Len(items') : items'[n].k = "Frame"}) = 1
               /\ work'.cursor = work.cursor + 1
               /\ IF Len(MultiFragment) > 1
                  THEN /\ work'.spill # None
                       /\ work'.spill[1].multi.src = head(work)[1].src
                       /\ pc' = "stopped" /\ stop' = "finish"
                  ELSE work'.spill = None /\ pc' = "loop"]_vars

\* A breakable block has been put off: the region has ended with items in
\* it, the cursor on the block and no spill.
C27_Witness ==
    /\ pc = "stopped" /\ stop = "finish"
    /\ head(work) # None /\ head(work)[1].k = "Multi"
    /\ ~is_full(regions)
    /\ PutOff
    /\ work.spill = None
    /\ items # <<>>

\* The frames of block src in the frames returned so far, in order.
RECURSIVE EmittedOf(_, _)
EmittedOf(src, n) ==
    IF n = 0 THEN <<>>
    ELSE EmittedOf(src, n - 1) \o LineFrames(out[n].items, src)

\* run() resumes the spill of a breakable block.
AtMultiSpill == pc = "spill" /\ work.spill # None

\* The fragment MultiSpill::layout gets for the spill in the regions at hand.
SpillFragment == layout_full(work.spill[1].multi, spill_pod(work.spill[1], regions))

\* The number of regions the block of the spill has been laid out in.
LaidOutIn == Len(work.spill[1].backlog) + 1

\* C28: the n-th region a breakable block is laid out in gets frame n of
\* its fragment (counted from 0): the block's first layout emits frame 0
\* and a resumption after n layouts emits frame n, the rows that follow
\* those emitted before; the spill is dropped exactly when that frame is the
\* fragment's last; a resumption in a full region emits nothing and puts
\* the spill back as it was.
C28_FramesInOrder ==
    [][/\ (AtMulti /\ ~PutOff) =>
             /\ items'[Len(items')].frame = MultiFragment[1]
             /\ items'[Len(items')].frame.lo = 1
             /\ work'.spill = None <=> Len(MultiFragment) = 1
             /\ work'.spill # None => work'.spill[1].backlog = <<>>
       /\ (AtMultiSpill /\ is_full(regions)) =>
             /\ items' = items
             /\ work' = work
             /\ pc' = "stopped" /\ stop' = "finish"
       /\ (AtMultiSpill /\ ~is_full(regions)) =>
             LET src == work.spill[1].multi.src
                 before == EmittedOf(src, Len(out))
                 f == items'[Len(items')].frame
             IN  /\ stop' # "error"
                 /\ Len(items') > Len(items)
                 /\ items'[Len(items')].k = "Frame"
                 /\ Len(SpillFragment) > LaidOutIn
                 /\ f = SpillFragment[LaidOutIn + 1]
                 /\ Len(before) >= LaidOutIn
                 /\ f.src = src /\ f.lo = before[Len(before)].hi + 1
                 /\ work'.spill = None <=> Len(SpillFragment) = LaidOutIn + 1
                 /\ work'.spill # None =>
                       /\ work'.spill[1].multi = work.spill[1].multi
                       /\ Len(work'.spill[1].backlog) = LaidOutIn
                       /\ pc' = "stopped" /\ stop' = "finish"
                 /\ work'.spill = None => f.hi = work.spill[1].multi.rows]_vars

\* A breakable block has been laid out in three regions and resumed in vain
\* in a full one between them: its last frame is among the items and its
\* spill is gone.
C28_Witness ==
    /\ pc = "par_spill"
    /\ Len(out) = 3
    /\ out[3].end.work.spill # None
    /\ out[3].items = <<>>
    /\ out[2].end.work.spill = out[3].end.work.spill
    /\ work.spill = None
    /\ items # <<>>
    /\ items[Len(items)].k = "Frame"
    /\ items[Len(items)].frame.src = out[3].end.work.spill[1].multi.src
    /\ Len(EmittedOf(items[Len(items)].frame.src, 3)) = 2

\* The height of the k-th region (from 0) that regions of height `first`
\* with this backlog and last region describe, if there is one.
HeightAt(first, backlog, last, k) ==
    IF k = 0 THEN Some(first)
    ELSE IF k <= Len(backlog) THEN Some(backlog[k])
    ELSE last

\* The heights committed to the spill with that of the region at hand, then
\* the backlog of the regions at hand.
Untrimmed == Append(work.spill[1].backlog, regions.size) \o regions.backlog

SpillPod == spill_pod(work.spill[1], regions)

\* C29: the pod of a resumption describes the heights committed before, the
\* height of the region at hand and the backlog of the regions, then last
\* again and again: its backlog is these heights without trailing entries
\* equal to regions.last, it is not trimmed below min_backlog_len, and
\* min_backlog_len of the spill that remains is not smaller than before.
C29_Pod ==
    [][(AtMultiSpill /\ ~is_full(regions)) =>
          /\ SpillPod.size = work.spill[1].first
          /\ SpillPod.last = regions.last
          /\ \A k \in 0..(Len(Untrimmed) + 2) :
                HeightAt(SpillPod.size, SpillPod.backlog, SpillPod.last, k)
                   = HeightAt(work.spill[1].first, Untrimmed, regions.last, k)
          /\ Len(SpillPod.backlog) <= Len(Untrimmed)
          /\ SpillPod.backlog = SubSeq(Untrimmed, 1, Len(SpillPod.backlog))
          /\ \A i \in (Len(SpillPod.backlog) + 1)..Len(Untrimmed) :
                Some(Untrimmed[i]) = regions.last
          /\ Len(SpillPod.backlog) < Len(Untrimmed) =>
                Len(SpillPod.backlog) >= work.spill[1].min_backlog_len
          /\ work'.spill # None =>
                /\ work'.spill[1].min_backlog_len >= work.spill[1].min_backlog_len
                /\ work'.spill[1].min_backlog_len >= Len(SpillPod.backlog)
                /\ work'.spill[1].backlog = Append(work.spill[1].backlog, regions.size)]_vars

\* A block is resumed for the second time, with a height committed before;
\* the pod's backlog is trimmed, and not to nothing.
C29_Witness ==
    /\ AtMultiSpill /\ ~is_full(regions)
    /\ work.spill[1].backlog # <<>>
    /\ Len(SpillPod.backlog) < Len(Untrimmed)
    /\ SpillPod.backlog # <<>>

\* run() resumes the spill of a deferred paragraph in a region that is not
\* full; the lines Distributor::par_spill hands to process_par_lines, and
\* the lines of the paragraph emitted in the regions before.
AtParSpill == pc = "par_spill" /\ work.par_spill # None /\ ~is_full(regions)

ResumedLines ==
    LET spill == work.par_spill[1]
    IN  IF spill.par # None /\ cutouts = {}
        THEN skip(par_layout(spill.par[1], cutouts, current_y(Cur)), spill.lines_placed)
        ELSE spill.frames

PlacedLines == EmittedOf(work.par_spill[1].src, Len(out))

\* C30 as stated: the need process_par_lines checks for a line of a deferred
\* paragraph is the need the collector gives that line within the whole
\* paragraph: for the lines of a fresh paragraph, and for the first line
\* checked when the paragraph is resumed, which is line number PlacedLines
\* of the lines placed followed by the lines to come.
C30_AsStated ==
    /\ (pc = "loop" /\ head(work) # None /\ head(work)[1].k = "Par") =>
          LET c == head(work)[1]
              frames == par_layout(c, cutouts, current_y(Cur))
          IN  \A i \in 0..(Len(frames) - 1) :
                 par_need(frames, c.par.leading, c.par.orphan, c.par.widow, i)
                    = lines_need(frames, c.par.leading, c.par.orphan, c.par.widow, i)
    /\ (AtParSpill /\ ResumedLines # <<>>) =>
          LET spill == work.par_spill[1]
          IN  par_need(ResumedLines, spill.leading, spill.orphan, spill.widow, 0)
                 = lines_need(PlacedLines \o ResumedLines, spill.leading, spill.orphan,
                              spill.widow, Len(PlacedLines))

\* Item n of its is the first line of a paragraph laid out around cutouts.
FirstCutLine(its, n) == its[n].k = "Frame" /\ its[n].frame.cut /\ its[n].frame.lo = 1

\* C31 as stated: when the loop lays out a deferred paragraph around cutouts
\* and emits its first line, the y_offset the layouter was given is the sum
\* of the spacing and the frame heights of the items before that line, the
\* spacing above the paragraph among them.
C31_AsStated ==
    [][(pc = "loop" /\ head(work) # None /\ head(work)[1].k = "Par" /\ cutouts # {}) =>
          \A n \in (Len(items) + 1)..Len(items') :
             FirstCutLine(items', n) =>
                items'[n].frame.y0 = current_y_of(SubSeq(items', 1, n - 1))]_vars

\* The loop is at a child of kind k.
AtChild(k) == pc = "loop" /\ head(work) # None /\ head(work)[1].k = k

\* The step ends the region unforced and leaves the child at the cursor.
Waits == items' = items /\ work' = work /\ regions' = regions /\ pc' = "stopped" /\ stop' = "finish"

\* The step emits a frame of height h for the child at the cursor and the
\* loop goes on after it.
EmitsFrame(h) ==
    /\ Len(items') > Len(items)
    /\ items'[Len(items')].k = "Frame"
    /\ items'[Len(items')].frame.src = head(work)[1].src
    /\ items'[Len(items')].frame.h = h
    /\ regions'.size = regions.size - h
    /\ work'.cursor = work.cursor + 1
    /\ pc' = "loop"

\* C32: an unbreakable block that is not fractional, or a pre-laid line,
\* whose frame does not fit what is left of the region ends the region
\* unforced and stays at the cursor when the regions may progress, and is
\* emitted into the region when they may not; a fractional block is pushed
\* as a fractional item whatever its height and the loop goes on.
C32_FitOrWait ==
    [][/\ (AtChild("Single") /\ head(work)[1].fr = None /\ ~head(work)[1].bad
             /\ ~fits(regions.size, head(work)[1].h)) =>
             IF may_progress(regions) THEN Waits ELSE EmitsFrame(head(work)[1].h)
       /\ (AtChild("Line") /\ ~fits(regions.size, head(work)[1].frame.h)) =>
             IF may_progress(regions) THEN Waits ELSE EmitsFrame(head(work)[1].frame.h)
       /\ (AtChild("Single") /\ head(work)[1].fr # None /\ ~head(work)[1].bad) =>
             /\ Len(items') > Len(items)
             /\ items'[Len(items')].k = "Fr"
             /\ items'[Len(items')].fr = head(work)[1].fr[1]
             /\ items'[Len(items')].single # None
             /\ regions' = regions
             /\ work'.cursor = work.cursor + 1
             /\ pc' = "loop"]_vars

\* A block and a line have been emitted into a region that had no room for
\* them and no region after it that differs.
C32_Witness ==
    /\ pc = "loop"
    /\ regions.size < 0
    /\ work.cursor >= 2
    /\ \E m, n \in 1..Len(items) :
          /\ items[m].k = "Frame" /\ items[n].k = "Frame"
          /\ ~items[m].mp /\ ~items[n].mp
          /\ children[work.cursor - 1].k = "Line"
          /\ \E j \in 1..Len(children) :
                children[j].k = "Single" /\ children[j].src = items[m].frame.src
          /\ items[n].frame.src = children[work.cursor - 1].src

\* The index of the nearest item of its that is not one of the kinds Through
\* holds of (0 if there is none).
NearestBut(its, Through(_)) ==
    LET rest == {n \in 1..Len(its) : ~Through(its[n])}
    IN  IF rest = {} THEN 0 ELSE CHOOSE n \in rest : \A m \in rest : m <= n

\* A tag, a strong absolute spacing or a placed item.
PeekedBeyond(item) == item.k \in {"Tag", "Placed"} \/ (item.k = "Abs" /\ item.w = 0)

\* The nearest item before a weak relative spacing that decides about it.
NearestForRel(its) == NearestBut(its, PeekedBeyond)

\* C33: a weak relative spacing whose nearest item before it, looking back
\* through tags, strong absolute spacing and placed items, is a fractional
\* spacing without block, strong or weak, is not emitted: the items and the
\* region are as before.
C33_FrDestroysWeakRel ==
    [][(/\ AtChild("Rel") /\ head(work)[1].w >= 1
        /\ NearestForRel(items) > 0
        /\ items[NearestForRel(items)].k = "Fr"
        /\ items[NearestForRel(items)].single = None) =>
          /\ items' = items
          /\ regions' = regions
          /\ work'.cursor = work.cursor + 1
          /\ pc' = "loop"]_vars

\* The loop has passed a weak relative spacing that came after a placed
\* item or a tag and, before that, a strong fractional spacing: no item is
\* there for the weak spacing.
C33_Witness ==
    /\ pc = "loop"
    /\ work.cursor >= 2
    /\ children[work.cursor - 1].k = "Rel" /\ children[work.cursor - 1].w >= 1
    /\ NearestForRel(items) > 0
    /\ items[NearestForRel(items)].k = "Fr"
    /\ items[NearestForRel(items)].w = 0 /\ items[NearestForRel(items)].single = None
    /\ \A n \in 1..Len(items) : items[n].k = "Abs" => items[n].src # work.cursor - 1

\* A tag, an absolute spacing of any weakness or a placed item.
PeekedBeyondForFr(item) == item.k \in {"Tag", "Abs", "Placed"}

\* The nearest item before a weak fractional spacing that decides about it.
NearestForFr(its) == NearestBut(its, PeekedBeyondForFr)

\* The weak absolute spacings of its behind index n.
WeakAbsAfter(its, n) == {m \in (n + 1)..Len(its) : its[m].k = "Abs" /\ its[m].w >= 1}

RECURSIVE SumOfAmounts(_, _)
SumOfAmounts(its, S) ==
    IF S = {} THEN 0
    ELSE LET m == CHOOSE x \in S : TRUE IN its[m].a + SumOfAmounts(its, S \ {m})

\* its without the items at the indices of S.
Without(its, S) == SelectSeq([m \in 1..Len(its) |-> <<m, its[m]>>], LAMBDA p : p[1] \notin S)

C34_Replaced ==
    /\ pc = "loop"
    /\ work.cursor >= 3
    /\ children[work.cursor - 1].k = "Fr" /\ children[work.cursor - 1].w >= 1
    /\ children[work.cursor - 2].k = "Fr" /\ children[work.cursor - 2].w >= 1
    /\ children[work.cursor - 2].fr < children[work.cursor - 1].fr
    /\ Len(items) >= 1
    /\ items[Len(items)].k = "Fr"
    /\ items[Len(items)].fr = children[work.cursor - 1].fr

\* No frame and no fractional item is among its: nothing but tags, strong
\* absolute spacing and placed items.
NothingToSpaceFrom(its) == \A n \in 1..Len(its) : PeekedBeyond(its[n])

\* C40: a weak relative or weak fractional spacing that is handled while the
\* items of the region hold no frame and no fractional item adds no item and
\* leaves the region as it is.
C40_NoWeakAtStart ==
    [][(/\ AtChild("Rel") \/ AtChild("Fr")
        /\ head(work)[1].w >= 1
        /\ NothingToSpaceFrom(items)) =>
          /\ items' = items
          /\ regions' = regions
          /\ work'.cursor = work.cursor + 1
          /\ pc' = "loop"]_vars

\* The loop has passed a weak spacing that came behind a strong absolute
\* spacing or a placed item at the start of the region.
C40_Witness ==
    /\ pc = "loop"
    /\ work.cursor >= 2
    /\ children[work.cursor - 1].k \in {"Rel", "Fr"}
    /\ children[work.cursor - 1].w >= 1
    /\ items # <<>>
    /\ NothingToSpaceFrom(items)

\* A weak absolute spacing or a weak fractional spacing without block.
WeakSpacing(item) ==
    \/ item.k = "Abs" /\ item.w >= 1
    \/ item.k = "Fr" /\ item.w >= 1 /\ item.single = None

\* A frame, a strong fractional spacing or a fractional block.
Supporting(item) == item.k \in {"Frame", "Fr"} /\ ~WeakSpacing(item)

\* The weak spacings of its with no supporting item behind them.
TrailingWeak(its) ==
    {n \in 1..Len(its) : WeakSpacing(its[n]) /\ \A m \in (n + 1)..Len(its) : ~Supporting(its[m])}

\* C35: the items of every finalized region hold no weak spacing behind
\* their last frame or fractional item, also when finalize restored a
\* snapshot before it trimmed.
C35_NoTrailingWeak == \A r \in 1..Len(out) : TrailingWeak(out[r].items) = {}

\* A region was finalized whose items ended in a weak spacing behind a frame
\* before the trim, and one whose trim came after a restore.
C35_Witness ==
    /\ \E r \in 1..Len(out) :
          /\ TrailingWeak(out[r].end.items) # {}
          /\ out[r].dropped = <<>>
          /\ \E n \in 1..Len(out[r].items) : out[r].items[n].k = "Frame"
    /\ \E r \in 1..Len(out) :
          /\ out[r].dropped # <<>>
          /\ Len(out[r].items) < Len(out[r].end.items) - Len(out[r].dropped)

\* The elements that set the paragraph situation.
SetsSituation(i) == elems[i].e \in {"Par", "Block", "Wrap", "Masthead"}

\* The situation the paragraph at element i is to have: by the nearest
\* element before it that is a paragraph, block, wrap or masthead.
SituationAt(i) ==
    LET before == {j \in 1..(i - 1) : SetsSituation(j)}
    IN  IF before = {} THEN "First"
        ELSE LET j == CHOOSE x \in before : \A y \in before : y <= x
             IN  IF elems[j].e = "Par" THEN "Consecutive" ELSE "Other"

\* C36: the situation recorded in the Par child of each paragraph is First if
\* no paragraph, block, wrap or masthead comes before it, Consecutive if the
\* nearest of these is a paragraph and Other if it is a block, wrap or
\* masthead, whatever tags, spacing, placed elements, flushes and column
\* breaks stand between.
C36_Situation ==
    (Called("collect") /\ Collected.ok) =>
        \A n \in 1..Len(Collected.children) :
            Collected.children[n].k = "Par" =>
                Collected.children[n].situation = SituationAt(Collected.children[n].src)

\* collect has recorded First for a paragraph and Consecutive for one that
\* follows it behind a tag, spacing, a placed element, a flush or a column
\* break.
C36_Witness ==
    /\ Called("collect") /\ Collected.ok
    /\ \E a, b \in 1..Len(Collected.children) :
          /\ a < b
          /\ Collected.children[a].k = "Par" /\ Collected.children[a].situation = "First"
          /\ Collected.children[b].k = "Par" /\ Collected.children[b].situation = "Consecutive"
          /\ Collected.children[b].src >= 2
          /\ elems[Collected.children[b].src - 1].e \in {"Tag", "V", "Place", "Flush", "Colbreak"}

\* C37: whenever a call of distribute has returned, at most one of the spill
\* of a breakable block and the spill of a deferred paragraph is pending.
C37_OneSpill == pc = "idle" => ~(work.spill # None /\ work.par_spill # None)

\* A call has returned with a paragraph's spill pending, an earlier one with
\* a block's spill pending, and a snapshot has been restored in between or
\* before.
C37_Witness ==
    /\ pc = "idle"
    /\ work.par_spill # None
    /\ \E r \in 1..Len(out) : out[r].end.work.spill # None

\* A call has returned after finalize restored a snapshot over a pending
\* spill.
C37_Restored ==
    /\ pc = "idle"
    /\ Len(out) >= 1
    /\ out[Len(out)].dropped # <<>>
    /\ out[Len(out)].end.work.spill # None \/ out[Len(out)].end.work.par_spill # None

\* The tags of its, in order.
TagsOf(its) ==
    LET tagged == SelectSeq(its, LAMBDA item : item.k = "Tag")
    IN  [n \in 1..Len(tagged) |-> tagged[n].tag]

\* The tags of the first r output frames, in order.
RECURSIVE TagsEmitted(_)
TagsEmitted(r) == IF r = 0 THEN <<>> ELSE TagsEmitted(r - 1) \o TagsOf(out[r].items)

\* The Tag children of the work queue, in order.
TagsCollected ==
    LET tagged == SelectSeq(children, LAMBDA c : c.k = "Tag")
    IN  [n \in 1..Len(tagged) |-> tagged[n].src]

\* The composer has got the frame of the last region.
FlowDone == pc = "idle" /\ result = "frame" /\ done(work)

\* C38: when the work queue is done, the tag items of the output frames,
\* region after region, are the Tag children of the queue, each once and in
\* their order.
C38_TagsConserved == FlowDone => TagsEmitted(Len(out)) = TagsCollected

\* The flow is done, a tag was pending when a region ended and came out in a
\* later one, and a region has taken back items with a restore.
C38_Witness ==
    /\ FlowDone
    /\ TagsCollected # <<>>
    /\ \E r \in 1..Len(out) : out[r].end.work.tags # <<>> /\ ~out[r].forced
    /\ \E r \in 1..Len(out) : out[r].dropped # <<>>

\* The flow is done and a restore has taken a tag item back.
C38_TagRestored ==
    /\ FlowDone
    /\ \E r \in 1..Len(out) : TagsOf(out[r].dropped) # <<>>

\* C39: the composer calling distribute region after region gets, after
\* finitely many calls, the frame that leaves the work queue done.
C39_Terminates == <>FlowDone

\* The calls the flow may take have all been made and the work is not done.
OutOfCalls == pc = "idle" /\ Len(out) = MaxCalls /\ ~done(work)

\* The flow is done after a sticky block was taken back from a region and
\* laid out again in the next, where it stayed.
C39_Witness ==
    /\ FlowDone
    /\ \E r \in 1..Len(out) :
          /\ out[r].dropped # <<>>
          /\ \E n \in 1..Len(out[r].dropped) :
                out[r].dropped[n].k = "Frame" /\ out[r].dropped[n].sticky
          /\ r < Len(out)

\* The flow is done after all items of a region, migratable ones, were taken
\* back and laid out again in the next.
C39_Migrated ==
    /\ FlowDone
    /\ \E r \in 1..Len(out) :
          /\ out[r].dropped # <<>>
          /\ out[r].items = <<>>
          /\ \A n \in 1..Len(out[r].dropped) : migratable(out[r].dropped[n])

====
